---- MODULE Spec2Model ----
(***************************************************************************)
(* Transaction pool core of gnosis/reth (crates/txpool/src/pool):          *)
(* the three indices by_account / by_hash / by_score held by Transactions, *)
(* Account::insert, ByScore with its lazy removals, block_update and the   *)
(* periodic check.  Hashes are the transaction ids themselves; the order   *)
(* of ids is the order of hashes.                                          *)
(***************************************************************************)
EXTENDS Integers, Naturals, Sequences, FiniteSets, TLC

VARIABLES by_account, by_hash, by_score, block, config, panicked, tasks, events,
          finder, reconcile, peer, peers, queue

vars == <<by_account, by_hash, by_score, block, config, panicked, tasks, events,
          finder, reconcile, peer, peers, queue>>

-----------------------------------------------------------------------------
(* Bounds of the model *)

\* an import is not tried once the heap holds this many entries
MaxHeapLen == 4
\* longest changed_accounts list of a BlockUpdate
MaxChanged == 1
\* longest reverted_tx list of a BlockUpdate
MaxReverted == 1
\* the number of import handlers that run side by side
NumTasks == 2
\* longest list of hashes a find or filter_by_negative is asked about
MaxQuery == 2
\* longest batch of raw transactions of one Add request
MaxBatch == 2
\* the capacity of a peer's known hashes, 1024 in the source, scaled down
MAX_KNOWN_TX == 2
\* the request ids a peer can answer with
MaxReqId == 2
\* peers of the sentry, concurrent calls of Peers::inbound, messages of the
\* sentry stream, and the insertions the pool announces to the PeerSet
NumPeers == 2
NumCallers == 2
MaxInbound == 2
MaxInserted == 2
\* enqueue calls on one AsyncQueue, and its largest max_items and batch_size
MaxEnqueue == 4
MaxItems == 3
MaxBatchSize == 2

(* Program constants and configuration *)

BUMP_SCORE_BY_12_5_PERC == 3
MAX_PENDING_TX_REMOVALS == 100
\* the configurations the pool is built with (the tests use max 2 and
\* per_account 2); timeout in clock ticks
Configs ==
  {[per_account |-> 2, max |-> 2, timeout |-> 0],
   [per_account |-> 1, max |-> 2, timeout |-> 0]}

-----------------------------------------------------------------------------
(* The transactions the environment can submit.  Fields as in                *)
(* reth_core::Transaction: author, nonce, gas_price, gas_limit, value.       *)

Addrs == {1, 2}

TxTable == <<
  [author |-> 1, nonce |-> 1, gas_price |-> 8, gas_limit |-> 8, value |-> 0],
  [author |-> 1, nonce |-> 1, gas_price |-> 9, gas_limit |-> 6, value |-> 0],
  [author |-> 1, nonce |-> 2, gas_price |-> 5, gas_limit |-> 3, value |-> 5],
  [author |-> 1, nonce |-> 3, gas_price |-> 11, gas_limit |-> 2, value |-> 0],
  [author |-> 2, nonce |-> 1, gas_price |-> 9, gas_limit |-> 1, value |-> 0] >>

TxIds == 1..Len(TxTable)

Author(t) == TxTable[t].author
Nonce(t) == TxTable[t].nonce
GasLimit(t) == TxTable[t].gas_limit

\* ScoreTransaction::new: the score of a legacy transaction is its gas price
Score(t) == TxTable[t].gas_price

\* Transaction::cost / max_cost: gas_limit * gas_price + value
Cost(t) == TxTable[t].gas_limit * TxTable[t].gas_price + TxTable[t].value

\* account states the world state can report
Nonces == {0, 1}
Balances == {20, 84}
Infos == [nonce : Nonces, balance : Balances]

BlockHashes == {0, 1}
BaseFees == {0}

NoTx == 0
Absent == -1
NoAccount ==
  [present |-> FALSE, info |-> [nonce |-> 0, balance |-> 0], transactions |-> <<>>]

\* U256::saturating_sub
SatSub(a, b) == IF b > a THEN 0 ELSE a - b

\* U256 >> n
Shr(a, n) == a \div (2 ^ n)

-----------------------------------------------------------------------------
(* Sequence helpers (Vec operations) *)

\* Vec::insert(index, x), index 0-based
VecInsert(s, i, x) == SubSeq(s, 1, i) \o <<x>> \o SubSeq(s, i + 1, Len(s))

\* Vec::remove(index), index 0-based
VecRemove(s, i) == SubSeq(s, 1, i) \o SubSeq(s, i + 2, Len(s))

\* Vec::swap_remove(index): the removed element is replaced by the last one
VecSwapRemove(s, i) ==
  IF i + 1 = Len(s) THEN SubSeq(s, 1, Len(s) - 1)
  ELSE [k \in 1..(Len(s) - 1) |-> IF k = i + 1 THEN s[Len(s)] ELSE s[k]]

\* position(|item| item.hash() == hash), 0-based; Len(s) when not found
RECURSIVE Position(_, _, _)
Position(s, h, i) ==
  IF i >= Len(s) THEN Len(s)
  ELSE IF s[i + 1] = h THEN i ELSE Position(s, h, i + 1)

-----------------------------------------------------------------------------
(* ByScore: a BinaryHeap of ScoreTransaction kept as a bag of hashes, and   *)
(* the set pending_removal.                                                 *)

\* Ord for ScoreTransaction: a is greater than b
OrdGreater(a, b) == Score(b) > Score(a) \/ (Score(b) = Score(a) /\ b > a)

HeapEmpty(sorting) == \A t \in TxIds : sorting[t] = 0

\* BinaryHeap::peek: the greatest element; NoTx on an empty heap
HeapPeek(sorting) ==
  IF HeapEmpty(sorting) THEN NoTx
  ELSE CHOOSE t \in TxIds :
         /\ sorting[t] > 0
         /\ \A u \in TxIds : (sorting[u] > 0 /\ u # t) => OrdGreater(t, u)

\* BinaryHeap::pop
HeapPop(sorting) ==
  [sorting EXCEPT ![HeapPeek(sorting)] = @ - 1]

\* the loop of ByScore::remove: pop the top while it is pending for removal
RECURSIVE PopPending(_, _)
PopPending(sorting, pending) ==
  IF ~HeapEmpty(sorting) /\ HeapPeek(sorting) \in pending
  THEN PopPending(HeapPop(sorting), pending)
  ELSE sorting

\* ByScore::push
ByScorePush(bs, t) == [bs EXCEPT !.sorting[t] = @ + 1]

\* ByScore::remove; peek().unwrap() panics on an empty heap
ByScoreRemove(bs, h) ==
  IF HeapEmpty(bs.sorting) THEN [bs EXCEPT !.panic = TRUE]
  ELSE IF HeapPeek(bs.sorting) = h
  THEN [bs EXCEPT !.sorting = PopPending(HeapPop(bs.sorting), bs.pending_removal)]
  ELSE [bs EXCEPT !.pending_removal = @ \cup {h}]

\* ByScore::pending_removal_remove
PendingRemovalRemove(bs, h) == [bs EXCEPT !.pending_removal = @ \ {h}]

\* ByScore::recreate_heap
RecreateHeap(bs) ==
  [bs EXCEPT !.sorting = [t \in TxIds |->
                            IF t \in bs.pending_removal THEN 0 ELSE bs.sorting[t]],
             !.pending_removal = {}]

-----------------------------------------------------------------------------
(* Account: the bucket of one sender *)

\* Account::new
AccountNew(info) == [present |-> TRUE, info |-> info, transactions |-> <<>>]

\* a binary search whose comparator is the wrong way round
RECURSIVE BinarySearchReversed(_, _, _, _)
BinarySearchReversed(txs, nonce, lo, hi) ==
  IF lo >= hi THEN [found |-> FALSE, index |-> lo]
  ELSE LET mid == lo + ((hi - lo) \div 2) IN
       IF Nonce(txs[mid + 1]) = nonce THEN [found |-> TRUE, index |-> mid]
       ELSE IF Nonce(txs[mid + 1]) > nonce
            THEN BinarySearchReversed(txs, nonce, mid + 1, hi)
            ELSE BinarySearchReversed(txs, nonce, lo, mid)

\* slice::binary_search_by(|old| old.nonce.cmp(&tx.nonce)) over [lo, hi)
RECURSIVE BinarySearch(_, _, _, _)
BinarySearch(txs, nonce, lo, hi) ==
  IF lo >= hi THEN [found |-> FALSE, index |-> lo]
  ELSE LET mid == lo + ((hi - lo) \div 2) IN
       IF Nonce(txs[mid + 1]) = nonce THEN [found |-> TRUE, index |-> mid]
       ELSE IF Nonce(txs[mid + 1]) < nonce
            THEN BinarySearch(txs, nonce, mid + 1, hi)
            ELSE BinarySearch(txs, nonce, lo, mid)

\* fold(balance, |acum, tx| acum.saturating_sub(tx.cost())) over txs[0..n]
RECURSIVE FoldBalance(_, _, _)
FoldBalance(txs, n, balance) ==
  IF n = 0 THEN balance
  ELSE SatSub(FoldBalance(txs, n - 1, balance), Cost(txs[n]))

\* a suffix walk that reports nothing
UnfundedFromNothing(txs, from, left_balance) == <<>>

\* the suffix walk of Account::insert and of block_update: the transactions
\* of txs[from..] whose cost exceeds what the ones before them left
RECURSIVE UnfundedFrom(_, _, _)
UnfundedFrom(txs, from, left_balance) ==
  IF from >= Len(txs) THEN <<>>
  ELSE LET tx == txs[from + 1]
           rest == UnfundedFrom(txs, from + 1, SatSub(left_balance, Cost(tx)))
       IN IF Cost(tx) > left_balance THEN <<tx>> \o rest ELSE rest

\* the replacement test of Account::insert: the new transaction against the
\* old one bumped by 12.5%
ReplaceAllowed(new, old) ==
  LET old_score == GasLimit(old)
      bumped_old_score == old_score + Shr(old_score, BUMP_SCORE_BY_12_5_PERC)
  IN GasLimit(new) > bumped_old_score

\* a limit test that is off by one
MaxedTxPerAccountOffByOne(txs, max_per_account) == Len(txs) > max_per_account

\* maxed_tx_per_account
MaxedTxPerAccount(txs, max_per_account) == Len(txs) = max_per_account

\* Account::insert(tx, max_per_account)
AccountInsert(acc, tx, max_per_account) ==
  LET txs == acc.transactions
      index == BinarySearch(txs, Nonce(tx), 0, Len(txs))
      insert_index == index.index
      balance == FoldBalance(txs, insert_index, acc.info.balance)
      maxed == MaxedTxPerAccount(txs, max_per_account)
      fail(e) == [err |-> e, acc |-> acc, replaced |-> NoTx, unfunded |-> <<>>]
      done(new_txs, replaced) ==
        [err |-> "", acc |-> [acc EXCEPT !.transactions = new_txs],
         replaced |-> replaced,
         unfunded |-> UnfundedFrom(new_txs, insert_index, balance)]
  IN IF Cost(tx) > balance THEN fail("NotInsertedBalanceInsufficient")
     ELSE IF ~index.found
     THEN IF insert_index = Len(txs) /\ maxed
          THEN fail("NotInsertedTxPerAccountFull")
          ELSE LET inserted == VecInsert(txs, insert_index, tx) IN
               IF maxed
               THEN done(SubSeq(inserted, 1, Len(inserted) - 1), inserted[Len(inserted)])
               ELSE done(inserted, NoTx)
     ELSE IF ReplaceAllowed(tx, txs[insert_index + 1])
          THEN done(VecSwapRemove(Append(txs, tx), insert_index), txs[insert_index + 1])
          ELSE fail("NotReplacedIncreaseGas")

\* a removal that leaves the bucket as it is
AccountRemoveNothing(acc, hash) == acc

\* Account::remove(hash): the bucket without the transaction
AccountRemove(acc, hash) ==
  [acc EXCEPT !.transactions = VecRemove(@, Position(@, hash, 0))]

-----------------------------------------------------------------------------
(* Transactions: by_account, by_hash, by_score and the known block.  The     *)
(* operators work on a record p of these fields plus the panic flag.         *)

\* BinaryHeap::len
HeapLen(sorting) ==
  LET RECURSIVE Sum(_)
      Sum(n) == IF n = 0 THEN 0 ELSE sorting[n] + Sum(n - 1)
  IN Sum(Len(TxTable))

\* by_hash.len()
HashLen(p) == Cardinality({t \in TxIds : p.by_hash[t] # Absent})

\* Transactions::remove(txhash); None leaves everything as it is
TransactionsRemove(p, txhash) ==
  IF p.by_hash[txhash] = Absent THEN p
  ELSE LET author == Author(txhash)
           account == p.by_account[author]
       IN IF ~account.present
             \/ Position(account.transactions, txhash, 0) = Len(account.transactions)
          THEN [p EXCEPT !.by_hash[txhash] = Absent, !.panic = TRUE]
          ELSE LET acc == AccountRemove(account, txhash)
                   p1 == [p EXCEPT !.by_hash[txhash] = Absent,
                                   !.by_account[author] =
                                      IF acc.transactions = <<>> THEN NoAccount ELSE acc]
               IN ByScoreRemove(p1, txhash)

\* for tx in list { self.remove(&tx.hash()) }
RECURSIVE RemoveAll(_, _)
RemoveAll(p, hashes) ==
  IF hashes = <<>> THEN p
  ELSE RemoveAll(TransactionsRemove(p, Head(hashes)), Tail(hashes))

\* a list of transactions reported with one reason
Tagged(txs, reason) == [i \in 1..Len(txs) |-> <<txs[i], reason>>]

\* the pool-full test of Transactions::insert
PoolFullUnderpriced(p, tx) ==
  HashLen(p) >= p.config.max /\ Score(tx) <= Score(HeapPeek(p.sorting))

\* a bucket fetch that does not compare the block hashes
VacantEntryErrorAnyHash(p, tx, account) ==
  IF p.by_account[Author(tx)].present THEN ""
  ELSE IF ~account.some THEN "InternalAccountNotFound"
  ELSE IF Nonce(tx) <= account.info.nonce THEN "NotInsertedWrongNonce"
  ELSE ""

\* the bucket fetch of Transactions::insert: an already present bucket is
\* taken as it is, a vacant entry is checked against the given account
VacantEntryError(p, tx, account) ==
  IF p.by_account[Author(tx)].present THEN ""
  ELSE IF ~account.some THEN "InternalAccountNotFound"
  ELSE IF account.hash # p.block.hash THEN "InternalAccountObsolete"
  ELSE IF Nonce(tx) <= account.info.nonce THEN "NotInsertedWrongNonce"
  ELSE ""

\* the tail of Transactions::insert: remove the worst transaction when the
\* limit is hit
LimitEviction(p) ==
  IF HashLen(p) > p.config.max
  THEN IF HeapEmpty(p.sorting) THEN [p |-> [p EXCEPT !.panic = TRUE], removed |-> <<>>]
       ELSE LET worst_scoredtx == HeapPeek(p.sorting) IN
            [p |-> TransactionsRemove(p, worst_scoredtx),
             removed |-> IF p.by_hash[worst_scoredtx] # Absent
                         THEN <<<<worst_scoredtx, "RemovedTxLimitHit">>>> ELSE <<>>]
  ELSE [p |-> p, removed |-> <<>>]

\* the commit of Transactions::insert after Account::insert succeeded
CommitInsert(p, tx, r, time) ==
  LET p1 == [p EXCEPT !.by_account[Author(tx)] = r.acc]
      p2 == IF r.replaced # NoTx
            THEN ByScoreRemove([p1 EXCEPT !.by_hash[r.replaced] = Absent], r.replaced)
            ELSE p1
      p3 == ByScorePush(PendingRemovalRemove(p2, tx), tx)
      p4 == [p3 EXCEPT !.by_hash[tx] = time]
      p5 == RemoveAll(p4, r.unfunded)
      removed == Tagged(r.unfunded, "RemovedTxUnfunded") \o
                 (IF r.replaced # NoTx THEN <<<<r.replaced, "RemovedTxReplaced">>>> ELSE <<>>)
      lim == LimitEviction(p5)
  IN [p |-> lim.p, err |-> "", removed |-> removed \o lim.removed]

\* a duplicate check that never finds the hash
ContainsKeyNever(p, tx) == FALSE

\* self.by_hash.contains_key(&tx.hash())
ContainsKey(p, tx) == p.by_hash[tx] # Absent

\* Transactions::insert(tx, account) at the given time
TransactionsInsert(p, tx, account, time) ==
  LET fail(q, e) == [p |-> q, err |-> e, removed |-> <<>>]
      author == Author(tx)
  IN IF ContainsKey(p, tx) THEN fail(p, "AlreadyPresent")
     ELSE IF HashLen(p) >= p.config.max /\ HeapEmpty(p.sorting)
     THEN fail([p EXCEPT !.panic = TRUE], "panic")
     ELSE IF PoolFullUnderpriced(p, tx) THEN fail(p, "NotInsertedPoolFullIncreaseGas")
     ELSE IF VacantEntryError(p, tx, account) # "" THEN fail(p, VacantEntryError(p, tx, account))
     ELSE LET p1 == IF p.by_account[author].present THEN p
                    ELSE [p EXCEPT !.by_account[author] = AccountNew(account.info)]
              r == AccountInsert(p1.by_account[author], tx, p.config.per_account)
          IN IF r.err # "" THEN fail(p1, r.err)
             ELSE CommitInsert(p1, tx, r, time)

\* Transactions::remove_stalled(threshold): every transaction with
\* timestamp < now - threshold, that is, of an age above the threshold
StalledSet(p, threshold) ==
  {t \in TxIds : p.by_hash[t] # Absent /\ p.by_hash[t] > threshold}

\* the orders in which a HashMap iteration can visit the set S
Orders(S) ==
  {s \in [1..Cardinality(S) -> S] : \A i, j \in 1..Cardinality(S) : s[i] = s[j] => i = j}

\* Transactions::periodic_check, rem being the stalled transactions
\* (remove_stalled(self.config.timeout)) in the order the map iteration
\* produced them
PeriodicCheck(p, rem) ==
  LET p1 == RemoveAll(p, rem)
  IN [p |-> IF Cardinality(p1.pending_removal) > MAX_PENDING_TX_REMOVALS
            THEN RecreateHeap(p1) ELSE p1,
      rem |-> rem]

\* Transactions::binary_heap_and_accounts: recreates the heap, then hands
\* out copies
BinaryHeapAndAccounts(p) == RecreateHeap(p)

\* take_while(|tx| tx.nonce <= nonce) over a bucket's transactions
RECURSIVE TakeWhileNonce(_, _)
TakeWhileNonce(txs, nonce) ==
  IF txs = <<>> \/ Nonce(Head(txs)) > nonce THEN <<>>
  ELSE <<Head(txs)>> \o TakeWhileNonce(Tail(txs), nonce)

\* block_update, one entry of changed_accounts: drop the obsolete nonces,
\* take over the new info, drop what the decreased balance cannot fund
ApplyChangedAccount(p, address, info) ==
  LET account == p.by_account[address] IN
  IF ~account.present THEN [p |-> p, removed |-> <<>>]
  ELSE LET txs == account.transactions
           obsolete == IF info.nonce > account.info.nonce
                       THEN TakeWhileNonce(txs, info.nonce) ELSE <<>>
           unfunded == IF info.balance < account.info.balance
                       THEN UnfundedFrom(txs, Len(obsolete), info.balance) ELSE <<>>
           p1 == [p EXCEPT !.by_account[address].info = info]
       IN [p |-> RemoveAll(p1, obsolete \o unfunded),
           removed |-> Tagged(obsolete, "OnNewBlockNonce") \o
                       Tagged(unfunded, "RemovedTxUnfunded")]

RECURSIVE ApplyChangedAccounts(_, _)
ApplyChangedAccounts(p, changed) ==
  IF changed = <<>> THEN [p |-> p, removed |-> <<>>]
  ELSE LET one == ApplyChangedAccount(p, Head(changed).address, Head(changed).info)
           rest == ApplyChangedAccounts(one.p, Tail(changed))
       IN [p |-> rest.p, removed |-> one.removed \o rest.removed]

\* a lookup that finds no account for a reverted transaction
ChangedInfoMissing(changed, address) ==
  [some |-> FALSE, info |-> NoAccount.info, hash |-> 0]

\* changed_accounts collected into a HashMap: the last entry of an address
ChangedInfo(changed, address) ==
  LET idx == {i \in 1..Len(changed) : changed[i].address = address} IN
  IF idx = {} THEN [some |-> FALSE, info |-> NoAccount.info, hash |-> 0]
  ELSE [some |-> TRUE,
        info |-> changed[CHOOSE i \in idx : \A j \in idx : j <= i].info,
        hash |-> 0]

\* block_update, the reinsertion of the reverted transactions
RECURSIVE Reinsert(_, _, _, _)
Reinsert(p, reverted, update, time) ==
  IF reverted = <<>> THEN [p |-> p, reinserted |-> <<>>, displaced |-> <<>>]
  ELSE LET tx == Head(reverted)
           account == ChangedInfo(update.changed_accounts, Author(tx))
           r == IF account.some
                THEN TransactionsInsert(p, tx, [account EXCEPT !.hash = update.new_hash], time)
                ELSE [p |-> p, err |-> "missing account", removed |-> <<>>]
           rest == Reinsert(r.p, Tail(reverted), update, time)
       IN [p |-> rest.p,
           reinserted |-> (IF r.err = "" THEN <<tx>> ELSE <<>>) \o rest.reinserted,
           displaced |-> r.removed \o rest.displaced]

\* Transactions::block_update(update)
TransactionsBlockUpdate(p, update, time) ==
  LET p1 == [p EXCEPT !.block = [hash |-> update.new_hash, base_fee |-> update.base_fee]]
      ch == ApplyChangedAccounts(p1, update.changed_accounts)
      re == Reinsert(ch.p, update.reverted_tx, update, time)
  IN [p |-> RecreateHeap(re.p), removed |-> ch.removed, reinserted |-> re.reinserted,
      displaced |-> re.displaced]

-----------------------------------------------------------------------------
(* The state machine *)

\* the record the operators work on, from the variables
Pool ==
  [by_account |-> by_account, by_hash |-> by_hash,
   sorting |-> by_score.sorting, pending_removal |-> by_score.pending_removal,
   block |-> block, config |-> config, panic |-> panicked]

\* the variables take the fields of p
Store(p) ==
  /\ by_account' = p.by_account
  /\ by_hash' = p.by_hash
  /\ by_score' = [sorting |-> p.sorting, pending_removal |-> p.pending_removal]
  /\ block' = p.block
  /\ panicked' = p.panic
  /\ UNCHANGED config

\* the import handlers of Pool::import (one future per transaction)
Procs == 1..NumTasks

\* a handler that holds no transaction
IdleTask ==
  [pc |-> "idle", tx |-> NoTx, info |-> NoAccount.info, hash |-> 0,
   pending |-> <<>>, result |-> ""]

\* a caller of find before it takes the read lock
IdleFinder == [locked |-> FALSE, hashes |-> <<>>, out |-> <<>>]

\* no block_update holds the write lock
NoReconcile == [phase |-> "none", update |-> <<>>]

\* the request ids of GetPooledTransactions
ReqIds == 1..MaxReqId

\* no entry of the HashMap requested under a request id
NoRequest == [present |-> FALSE, hashes |-> <<>>]

\* Peer::new
PeerNew ==
  [known |-> {}, known_sorted |-> <<>>, requested |-> [id \in ReqIds |-> NoRequest]]

\* the peer ids of the sentry and the concurrent calls of Peers::inbound
PeerIds == 1..NumPeers
Callers == 1..NumCallers

\* a call of Peers::inbound that has not started
IdleCall == [pc |-> "idle", peer_id |-> 0, msg |-> 0, read |-> FALSE]

\* the Rust editions the crate can be built with.  Up to 2021 the temporaries
\* of the scrutinee of `if let` live to the end of the whole statement, its
\* else block included; from 2024 on they are dropped before the else block
Editions == {2021, 2024}

\* Peers::new: no sessions, an empty tx_buffer, no permit in notify_tx_buffer
\* and the spawned fan-out task in front of its notified().await.  handles is
\* the HashMap peers: per peer id whether a PeerHandle is stored and the
\* messages in its channel; sessions counts the session tasks running per
\* peer id; arrived counts the messages the sentry stream has delivered and
\* inserted the transactions the pool has announced, which are numbered in
\* the order of their insertion
PeersNew(edition) ==
  [edition |-> edition,
   handles |-> [id \in PeerIds |-> [present |-> FALSE, channel |-> <<>>]],
   sessions |-> [id \in PeerIds |-> 0],
   tx_buffer |-> <<>>,
   permit |-> FALSE,
   fanout |-> [pc |-> "notified", txs |-> <<>>],
   calls |-> [c \in Callers |-> IdleCall],
   arrived |-> 0, inserted |-> 0]

\* AsyncQueue::new(max_items, batch_size) with the worker thread of
\* ExecutionQueue::new in front of its first wait_for_batch.  ended stands
\* for items being None; accepted and taken record the items enqueue took
\* and the items wait_for_batch handed out, calls counts the enqueue calls
AsyncQueueNew(max_items, batch_size) ==
  [items |-> <<>>, ended |-> FALSE,
   max_items |-> max_items,
   batch_size |-> IF batch_size = 0 THEN max_items ELSE batch_size,
   worker |-> "running", woken |-> FALSE, batch |-> <<>>, joiner |-> "none",
   accepted |-> <<>>, taken |-> <<>>, calls |-> 0]

\* Transactions::new / Pool::new
Init ==
  /\ by_account = [a \in Addrs |-> NoAccount]
  /\ by_hash = [t \in TxIds |-> Absent]
  /\ by_score = [sorting |-> [t \in TxIds |-> 0], pending_removal |-> {}]
  /\ block = [hash |-> 0, base_fee |-> 0]
  /\ config \in Configs
  /\ panicked = FALSE
  /\ tasks = [i \in Procs |-> IdleTask]
  /\ events = <<>>
  /\ finder = IdleFinder
  /\ reconcile = NoReconcile
  /\ peer = PeerNew
  /\ peers = PeersNew(2021)
  /\ queue = AsyncQueueNew(1, 1)

\* Pool::import of one transaction, one pass of its loop: under the read
\* lock it takes the info of the sender's bucket and the block hash; without
\* a bucket it asks the world state about the block hash it read, and the
\* pool may have moved on when the insert takes the write lock
Import(tx, info, hash) ==
  /\ ~panicked
  /\ HeapLen(by_score.sorting) < MaxHeapLen
  /\ by_account[Author(tx)].present
       => (info = by_account[Author(tx)].info /\ hash = block.hash)
  /\ Store(TransactionsInsert(Pool, tx, [some |-> TRUE, info |-> info, hash |-> hash], 0).p)
  /\ UNCHANGED <<tasks, events, finder, reconcile, peer, peers, queue>>

\* Pool::remove of one hash
Remove(hash) ==
  /\ ~panicked
  /\ Store(TransactionsRemove(Pool, hash))
  /\ UNCHANGED <<tasks, events, finder, reconcile, peer, peers, queue>>

\* Pool::block_update
BlockUpdate(update) ==
  /\ ~panicked
  /\ HeapLen(by_score.sorting) + Len(update.reverted_tx) <= MaxHeapLen
  /\ Store(TransactionsBlockUpdate(Pool, update, 0).p)
  /\ UNCHANGED <<tasks, events, finder, reconcile, peer, peers, queue>>

\* the periodic task of Pool::new
Periodic(rem) ==
  /\ ~panicked
  /\ Store(PeriodicCheck(Pool, rem).p)
  /\ UNCHANGED <<tasks, events, finder, reconcile, peer, peers, queue>>

\* Pool::new_pending_block, its effect on the pool
NewPendingBlock ==
  /\ ~panicked
  /\ Store(BinaryHeapAndAccounts(Pool))
  /\ UNCHANGED <<tasks, events, finder, reconcile, peer, peers, queue>>

\* time passes: every pooled transaction gets one tick older
Tick ==
  /\ by_hash' = [t \in TxIds |-> IF by_hash[t] = Absent THEN Absent
                                 ELSE IF by_hash[t] > config.timeout THEN by_hash[t]
                                 ELSE by_hash[t] + 1]
  /\ UNCHANGED <<by_account, by_score, block, config, panicked, tasks, events, finder, reconcile, peer, peers, queue>>

\* lists without repetition, of at most n elements of S
RECURSIVE DistinctSeqs(_, _)
DistinctSeqs(S, n) ==
  IF n = 0 THEN {<<>>}
  ELSE LET shorter == DistinctSeqs(S, n - 1) IN
       shorter \cup {Append(s, x) : s \in shorter, x \in S}

\* what the chain feed can send besides the hashes: each changed account
\* once and in the order of the addresses, reverted transactions of changed
\* accounts
UpdateBodies ==
  {u \in [base_fee : BaseFees,
          changed_accounts : DistinctSeqs([address : Addrs, info : Infos], MaxChanged),
          reverted_tx : DistinctSeqs(TxIds, MaxReverted)] :
     /\ \A i, j \in 1..Len(u.changed_accounts) :
           i < j => u.changed_accounts[i].address < u.changed_accounts[j].address
     /\ \A i, j \in 1..Len(u.reverted_tx) : u.reverted_tx[i] = u.reverted_tx[j] => i = j
     /\ \A i \in 1..Len(u.reverted_tx) :
           \E k \in 1..Len(u.changed_accounts) :
              u.changed_accounts[k].address = Author(u.reverted_tx[i])}

\* a BlockUpdate that leads from the known block to another one
Update(body, new_hash) ==
  [old_hash |-> block.hash, new_hash |-> new_hash, base_fee |-> body.base_fee,
   changed_accounts |-> body.changed_accounts, reverted_tx |-> body.reverted_tx]

Next ==
  \/ \E tx \in TxIds, info \in Infos, hash \in BlockHashes : Import(tx, info, hash)
  \/ \E hash \in TxIds : Remove(hash)
  \/ \E body \in UpdateBodies, new_hash \in BlockHashes \ {block.hash} :
        BlockUpdate(Update(body, new_hash))
  \/ \E rem \in Orders(StalledSet(Pool, config.timeout)) : Periodic(rem)
  \/ NewPendingBlock
  \/ Tick

Spec == Init /\ [][Next]_vars

\* no unwrap or expect of the pool fails
NoPanic == ~panicked

-----------------------------------------------------------------------------
(* Pool::import, handler by handler.  Each handler runs the loop of         *)
(* Pool::import for one transaction: it reads the sender's info and the     *)
(* block hash under the read lock, asks the world state when the pool has   *)
(* no bucket, inserts under the write lock, and announces what the insert   *)
(* returned.  The handlers interleave at every lock and every await.        *)

\* AccountInfo::default(), what unwrap_or_default() gives for an account
\* the world state does not know
DefaultInfo == [nonce |-> 0, balance |-> 0]

\* what world_state.account_info can answer
WorldAnswers == Infos \cup {DefaultInfo}

\* a handler takes a transaction of the batch
Submit(i, tx) ==
  /\ ~panicked
  /\ tasks[i].pc = "idle"
  /\ tasks' = [tasks EXCEPT ![i] = [IdleTask EXCEPT !.pc = "read", !.tx = tx]]
  /\ UNCHANGED <<by_account, by_hash, by_score, block, config, panicked, events, finder, reconcile, peer, peers, queue>>

\* the read lock: account info and block hash from the pool
ReadAccount(i) ==
  /\ tasks[i].pc = "read"
  /\ LET acc == by_account[Author(tasks[i].tx)] IN
     tasks' = [tasks EXCEPT ![i] =
                 IF acc.present
                 THEN [@ EXCEPT !.pc = "write", !.info = acc.info, !.hash = block.hash]
                 ELSE [@ EXCEPT !.pc = "fetch", !.hash = block.hash]]
  /\ UNCHANGED <<by_account, by_hash, by_score, block, config, panicked, events, finder, reconcile, peer, peers, queue>>

\* the answer of world_state.account_info(BlockId::Hash(block_hash), address)
FetchAccount(i, info) ==
  /\ tasks[i].pc = "fetch"
  /\ tasks' = [tasks EXCEPT ![i] = [@ EXCEPT !.pc = "write", !.info = info]]
  /\ UNCHANGED <<by_account, by_hash, by_score, block, config, panicked, events, finder, reconcile, peer, peers, queue>>

\* the write lock: self.txs.write().insert(tx, acc_and_block_hash)
WriteInsert(i) ==
  /\ ~panicked
  /\ tasks[i].pc = "write"
  /\ LET t == tasks[i]
         r == TransactionsInsert(Pool, t.tx,
                                 [some |-> TRUE, info |-> t.info, hash |-> t.hash], 0)
     IN /\ Store(r.p)
        /\ tasks' = [tasks EXCEPT ![i] =
                       IF r.err = ""
                       THEN [@ EXCEPT !.pc = "announce",
                                      !.pending = r.removed \o <<<<t.tx, "Inserted">>>>]
                       ELSE IF r.err = "InternalAccountObsolete"
                       THEN [@ EXCEPT !.pc = "read"]
                       ELSE [@ EXCEPT !.pc = "done", !.result = r.err]]
  /\ UNCHANGED <<events, finder, reconcile, peer, peers, queue>>

\* one call of the announcer: removed(tx, reason) for what the insert
\* returned, then inserted(tx)
Announce(i) ==
  /\ tasks[i].pc = "announce"
  /\ events' = Append(events, Head(tasks[i].pending))
  /\ tasks' = [tasks EXCEPT ![i] =
                 IF Len(@.pending) = 1
                 THEN [@ EXCEPT !.pc = "done", !.pending = <<>>, !.result = "Ok"]
                 ELSE [@ EXCEPT !.pending = Tail(@)]]
  /\ UNCHANGED <<by_account, by_hash, by_score, block, config, panicked, finder, reconcile, peer, peers, queue>>

\* the chain moves to another block while the handlers run: a block_update
\* that changes no account and reverts nothing
TipChange ==
  /\ ~panicked
  /\ \E new_hash \in BlockHashes \ {block.hash} :
       Store(TransactionsBlockUpdate(Pool,
               [old_hash |-> block.hash, new_hash |-> new_hash, base_fee |-> block.base_fee,
                changed_accounts |-> <<>>, reverted_tx |-> <<>>], 0).p)
  /\ UNCHANGED <<tasks, events, finder, reconcile, peer, peers, queue>>

ImportNext ==
  \/ \E i \in Procs, tx \in TxIds : Submit(i, tx)
  \/ \E i \in Procs : ReadAccount(i)
  \/ \E i \in Procs, info \in WorldAnswers : FetchAccount(i, info)
  \/ \E i \in Procs : WriteInsert(i)
  \/ \E i \in Procs : Announce(i)
  \/ TipChange

ImportSpec == Init /\ [][ImportNext]_vars

\* Pool::remove of one hash, as a caller of its own beside the import
\* handlers: it takes the hash
SubmitRemove(i, hash) ==
  /\ ~panicked
  /\ tasks[i].pc = "idle"
  /\ tasks' = [tasks EXCEPT ![i] = [IdleTask EXCEPT !.pc = "remove", !.tx = hash]]
  /\ UNCHANGED <<by_account, by_hash, by_score, block, config, panicked, events, finder, reconcile, peer, peers, queue>>

\* let tx = self.txs.write().remove(&hash): the write lock is dropped at the
\* end of the statement, the announcement of a removed transaction follows
RemoveCommit(i) ==
  /\ ~panicked
  /\ tasks[i].pc = "remove"
  /\ Store(TransactionsRemove(Pool, tasks[i].tx))
  /\ tasks' = [tasks EXCEPT ![i] =
                 IF by_hash[tasks[i].tx] # Absent
                 THEN [tasks[i] EXCEPT !.pc = "announce",
                                       !.pending = <<<<tasks[i].tx, "RemovedTxOnDemand">>>>]
                 ELSE [tasks[i] EXCEPT !.pc = "done", !.result = "Ok"]]
  /\ UNCHANGED <<events, finder, reconcile, peer, peers, queue>>

\* imports and removals side by side
AnnounceNext ==
  \/ \E i \in Procs, tx \in TxIds : Submit(i, tx)
  \/ \E i \in Procs : ReadAccount(i)
  \/ \E i \in Procs, info \in WorldAnswers : FetchAccount(i, info)
  \/ \E i \in Procs : WriteInsert(i)
  \/ \E i \in Procs, hash \in TxIds : SubmitRemove(i, hash)
  \/ \E i \in Procs : RemoveCommit(i)
  \/ \E i \in Procs : Announce(i)

AnnounceSpec == Init /\ [][AnnounceNext]_vars

\* the chain the world state answers for: at block 0 sender 1 has nonce 0,
\* the block that leads to hash 1 confirms its nonce 1; sender 2 is not
\* touched by the block
WorldState(hash, address) ==
  IF address = 1 THEN [nonce |-> hash, balance |-> 84]
  ELSE [nonce |-> 0, balance |-> 20]

\* a world state that answers for the latest block it knows whatever block
\* hash it is asked about
WorldFetchLatest(i) == FetchAccount(i, WorldState(1, Author(tasks[i].tx)))

\* world_state.account_info(BlockId::Hash(block_hash), address) of a world
\* state that answers one block hash and address with one AccountInfo
WorldFetch(i) == FetchAccount(i, WorldState(tasks[i].hash, Author(tasks[i].tx)))

\* the accounts that differ between two blocks, with their state at the new
\* one, in the order of the addresses
RECURSIVE ChangedBetween(_, _, _)
ChangedBetween(old_hash, new_hash, address) ==
  IF address \notin Addrs THEN <<>>
  ELSE (IF WorldState(old_hash, address) # WorldState(new_hash, address)
        THEN <<[address |-> address, info |-> WorldState(new_hash, address)]>>
        ELSE <<>>) \o ChangedBetween(old_hash, new_hash, address + 1)

\* Pool::block_update for the move of the chain to another block
ChainMove ==
  /\ ~panicked
  /\ \E new_hash \in BlockHashes \ {block.hash} :
       Store(TransactionsBlockUpdate(Pool,
               [old_hash |-> block.hash, new_hash |-> new_hash, base_fee |-> block.base_fee,
                changed_accounts |-> ChangedBetween(block.hash, new_hash, 1),
                reverted_tx |-> <<>>], 0).p)
  /\ UNCHANGED <<tasks, events, finder, reconcile, peer, peers, queue>>

\* the import handlers over one chain
SerialNext ==
  \/ \E i \in Procs, tx \in TxIds : Submit(i, tx)
  \/ \E i \in Procs : ReadAccount(i)
  \/ \E i \in Procs : WorldFetch(i)
  \/ \E i \in Procs : WriteInsert(i)
  \/ \E i \in Procs : Announce(i)
  \/ ChainMove

SerialSpec == Init /\ [][SerialNext]_vars

\* the steps of handler i
Handler(i) ==
  \/ ReadAccount(i)
  \/ \E info \in WorldAnswers : FetchAccount(i, info)
  \/ WriteInsert(i)
  \/ Announce(i)

\* the executor keeps polling every handler that can go on; nothing makes
\* the chain stand still
ImportFairSpec == ImportSpec /\ \A i \in Procs : WF_vars(Handler(i))

-----------------------------------------------------------------------------
(* The queries of the pool *)

\* the lists of hashes a caller can ask about
Queries == UNION {[1..n -> TxIds] : n \in 0..MaxQuery}

\* Pool::filter_by_negative(tx_hashes): the hashes of by_hash that the
\* given list does not hold, in the order the iteration over the HashMap
\* produces them; the set of the lists it can return
FilterByNegative(p, tx_hashes) ==
  LET hashset == {tx_hashes[i] : i \in 1..Len(tx_hashes)}
  IN Orders({t \in TxIds : p.by_hash[t] # Absent /\ t \notin hashset})

\* Transactions::find_by_hash(hash): the transaction by_hash keeps under the
\* hash, NoTx for None
FindByHash(hashes_by, hash) == IF hashes_by[hash] # Absent THEN hash ELSE NoTx

\* a writer that ignores the readers of the lock
WriteLockAlwaysFree == TRUE
\* self.txs.write() is granted only while no reader holds self.txs.read()
\* and no other writer holds self.txs.write()
WriteLockFree == ~finder.locked /\ reconcile.phase = "none"

\* Pool::find: let txs = self.txs.read()
FindStart(hashes) ==
  /\ ~finder.locked
  /\ finder' = [locked |-> TRUE, hashes |-> hashes, out |-> <<>>]
  /\ UNCHANGED <<by_account, by_hash, by_score, block, config, panicked, tasks, events, reconcile, peer, peers, queue>>

\* Pool::find: out.push(txs.find_by_hash(hash)) for the next hash
FindStep ==
  /\ finder.locked
  /\ Len(finder.out) < Len(finder.hashes)
  /\ finder' = [finder EXCEPT !.out =
                  Append(@, FindByHash(by_hash, finder.hashes[Len(@) + 1]))]
  /\ UNCHANGED <<by_account, by_hash, by_score, block, config, panicked, tasks, events, reconcile, peer, peers, queue>>

\* Pool::find: the loop is over, out is returned and the read guard dropped
FindReturn ==
  /\ finder.locked
  /\ Len(finder.out) = Len(finder.hashes)
  /\ finder' = IdleFinder
  /\ UNCHANGED <<by_account, by_hash, by_score, block, config, panicked, tasks, events, reconcile, peer, peers, queue>>

\* Pool::import and Pool::remove wait for the write lock
LockedImport(tx, info, hash) == WriteLockFree /\ Import(tx, info, hash)
LockedRemove(hash) == WriteLockFree /\ Remove(hash)

FindNext ==
  \/ \E tx \in TxIds, info \in Infos, hash \in BlockHashes : LockedImport(tx, info, hash)
  \/ \E hash \in TxIds : LockedRemove(hash)
  \/ \E hashes \in Queries : FindStart(hashes)
  \/ FindStep
  \/ FindReturn

FindSpec == Init /\ [][FindNext]_vars

-----------------------------------------------------------------------------
(* Pool::block_update step by step.  Pool::block_update takes the write     *)
(* lock once, `self.txs.write().block_update(update)`, and                  *)
(* Transactions::block_update runs under it from the change of the block    *)
(* hash to recreate_heap.                                                    *)

\* a reader that ignores the writer of the lock
ReadLockAlwaysFree == TRUE
\* self.txs.read() is granted only while no writer holds self.txs.write()
ReadLockFree == reconcile.phase = "none"

\* self.txs.write(); self.block.hash = update.new_hash; self.block.base_fee
\* = update.base_fee
ReconcileStart(update) ==
  /\ ~panicked
  /\ WriteLockFree
  /\ HeapLen(by_score.sorting) + Len(update.reverted_tx) <= MaxHeapLen
  /\ reconcile' = [phase |-> "tip", update |-> update]
  /\ Store([Pool EXCEPT !.block = [hash |-> update.new_hash, base_fee |-> update.base_fee]])
  /\ UNCHANGED <<tasks, events, finder, peer, peers, queue>>

\* the loop over update.changed_accounts
ReconcilePrune ==
  /\ reconcile.phase = "tip"
  /\ reconcile' = [reconcile EXCEPT !.phase = "pruned"]
  /\ Store(ApplyChangedAccounts(Pool, reconcile.update.changed_accounts).p)
  /\ UNCHANGED <<tasks, events, finder, peer, peers, queue>>

\* the loop over update.reverted_tx
ReconcileReinsert ==
  /\ reconcile.phase = "pruned"
  /\ reconcile' = [reconcile EXCEPT !.phase = "reinserted"]
  /\ Store(Reinsert(Pool, reconcile.update.reverted_tx, reconcile.update, 0).p)
  /\ UNCHANGED <<tasks, events, finder, peer, peers, queue>>

\* recreate_heap, the return, and the write guard is dropped
ReconcileCompact ==
  /\ reconcile.phase = "reinserted"
  /\ reconcile' = NoReconcile
  /\ Store(RecreateHeap(Pool))
  /\ UNCHANGED <<tasks, events, finder, peer, peers, queue>>

\* Pool::find asks for the read lock
LockedFindStart(hashes) == ReadLockFree /\ FindStart(hashes)

ReconcileNext ==
  \/ \E tx \in TxIds, info \in Infos, hash \in BlockHashes : LockedImport(tx, info, hash)
  \/ \E hashes \in Queries : LockedFindStart(hashes)
  \/ FindStep
  \/ FindReturn
  \/ \E body \in UpdateBodies, new_hash \in BlockHashes \ {block.hash} :
        ReconcileStart(Update(body, new_hash))
  \/ ReconcilePrune
  \/ ReconcileReinsert
  \/ ReconcileCompact

ReconcileSpec == Init /\ [][ReconcileNext]_vars

-----------------------------------------------------------------------------
(* Pool::new_pending_block *)

\* BinaryHeap::into_sorted_vec: ascending in Ord, the greatest element last
RECURSIVE IntoSortedVec(_)
IntoSortedVec(sorting) ==
  IF HeapEmpty(sorting) THEN <<>>
  ELSE IntoSortedVec(HeapPop(sorting)) \o <<HeapPeek(sorting)>>

\* Iterator::rev
Rev(s) == [i \in 1..Len(s) |-> s[Len(s) + 1 - i]]

\* for tx in sorted.into_iter().rev()
VisitOrder(sorting) == Rev(IntoSortedVec(sorting))

\* if tx.score >= block.base_fee { break; }
FeeBreak(tx, base_fee) == Score(tx) >= base_fee

\* the loop of new_pending_block over the transactions still to visit:
\* nonces[a] is Absent until the sender is met, then the next nonce
\* expected of it; a sender without a bucket hits the expect
RECURSIVE PendingLoop(_, _, _, _, _)
PendingLoop(visit, accounts, base_fee, nonces, out) ==
  IF visit = <<>> THEN [out |-> out, panic |-> FALSE]
  ELSE LET tx == Head(visit)
           author == Author(tx)
       IN IF FeeBreak(tx, base_fee) THEN [out |-> out, panic |-> FALSE]
          ELSE IF nonces[author] = Absent /\ ~accounts[author].present
          THEN [out |-> out, panic |-> TRUE]
          ELSE LET nonce == IF nonces[author] = Absent
                            THEN accounts[author].info.nonce ELSE nonces[author]
               IN IF nonce = Nonce(tx)
                  THEN PendingLoop(Tail(visit), accounts, base_fee,
                                   [nonces EXCEPT ![author] = nonce + 1],
                                   Append(out, tx))
                  ELSE PendingLoop(Tail(visit), accounts, base_fee,
                                   [nonces EXCEPT ![author] = nonce], out)

\* the transactions new_pending_block returns from the pool p
PendingBlock(p) ==
  LET q == BinaryHeapAndAccounts(p)
  IN PendingLoop(VisitOrder(q.sorting), q.by_account, q.block.base_fee,
                 [a \in Addrs |-> Absent], <<>>)

\* the base fees and the account states of the chain while pending blocks
\* are built
PendingBaseFees == {0, 9, 12}
PendingInfos == Infos \cup {[nonce |-> 2, balance |-> 84]}

\* a block_update that changes no account and reverts nothing, but brings
\* the base fee of the new block
FeeChange ==
  /\ ~panicked
  /\ \E new_hash \in BlockHashes \ {block.hash}, base_fee \in PendingBaseFees :
       Store(TransactionsBlockUpdate(Pool,
               [old_hash |-> block.hash, new_hash |-> new_hash, base_fee |-> base_fee,
                changed_accounts |-> <<>>, reverted_tx |-> <<>>], 0).p)
  /\ UNCHANGED <<tasks, events, finder, reconcile, peer, peers, queue>>

\* Pool::new_pending_block with its panic
PendingBlockCall ==
  /\ ~panicked
  /\ Store([BinaryHeapAndAccounts(Pool) EXCEPT !.panic = PendingBlock(Pool).panic])
  /\ UNCHANGED <<tasks, events, finder, reconcile, peer, peers, queue>>

PendingNext ==
  \/ \E tx \in TxIds, info \in PendingInfos, hash \in BlockHashes : Import(tx, info, hash)
  \/ \E hash \in TxIds : Remove(hash)
  \/ FeeChange
  \/ PendingBlockCall

PendingSpec == Init /\ [][PendingNext]_vars

\* Pool::remove(hashes): one Transactions::remove per hash, and a removed
\* event with RemovedTxOnDemand for every transaction that was found
RECURSIVE PoolRemove(_, _)
PoolRemove(p, hashes) ==
  IF hashes = <<>> THEN [p |-> p, events |-> <<>>]
  ELSE LET hash == Head(hashes)
           rest == PoolRemove(TransactionsRemove(p, hash), Tail(hashes))
       IN [p |-> rest.p,
           events |-> (IF p.by_hash[hash] # Absent
                       THEN <<<<hash, "RemovedTxOnDemand">>>> ELSE <<>>) \o rest.events]

-----------------------------------------------------------------------------
(* Peer: the session of one peer.  known is the HashSet and known_sorted    *)
(* the VecDeque, its front at index 1.                                       *)

\* Peer::insert_known
InsertKnown(pr, hash) ==
  LET full == Len(pr.known_sorted) > MAX_KNOWN_TX
      sorted == IF full THEN SubSeq(pr.known_sorted, 1, Len(pr.known_sorted) - 1)
                ELSE pr.known_sorted
      known == IF full THEN pr.known \ {pr.known_sorted[Len(pr.known_sorted)]}
               ELSE pr.known
  IN [pr EXCEPT !.known = known \cup {hash}, !.known_sorted = <<hash>> \o sorted]

\* Peer::is_known
IsKnown(pr, hash) == hash \in pr.known

\* insert_known for every hash of a list, in its order
RECURSIVE InsertKnownAll(_, _)
InsertKnownAll(pr, hashes) ==
  IF hashes = <<>> THEN pr
  ELSE InsertKnownAll(InsertKnown(pr, Head(hashes)), Tail(hashes))

\* Peer::pool_new_tx(new): the peer afterwards and the hashes of the
\* NewPooledTransactionHashes message; sent is FALSE when the list is empty
\* and nothing goes to the sentry
RECURSIVE PoolNewTx(_, _)
PoolNewTx(pr, new) ==
  IF new = <<>> THEN [peer |-> pr, hashes |-> <<>>, sent |-> FALSE]
  ELSE LET hash == Head(new)
           rest == PoolNewTx(IF IsKnown(pr, hash) THEN InsertKnown(pr, hash) ELSE pr,
                             Tail(new))
           hashes == (IF IsKnown(pr, hash) THEN <<hash>> ELSE <<>>) \o rest.hashes
       IN [peer |-> rest.peer, hashes |-> hashes, sent |-> hashes # <<>>]

\* PeerMsg::IncludedTxs(txs)
IncludedTxs(new) ==
  /\ peer' = PoolNewTx(peer, new).peer
  /\ UNCHANGED <<by_account, by_hash, by_score, block, config, panicked, tasks, events,
                 finder, reconcile, peers, queue>>

\* Peer::inbound_new_pooled_tx_hashes(data): every announced hash is marked
\* known, the pool is asked which of them it has, and the hashes it does not
\* have go to the sentry as GetPooledTransactions.  The message is the bare
\* list of hashes, sent whatever its length; self.requested is not touched
InboundNewPooledTxHashesOf(pr, p, hashes) ==
  [peer |-> InsertKnownAll(pr, hashes),
   sent |-> TRUE,
   request |-> SelectSeq(hashes, LAMBDA h : FindByHash(p.by_hash, h) = NoTx)]

\* PeerMsg::InboundNewPooledTxHashes(data)
InboundNewPooledTxHashes(hashes) ==
  /\ peer' = InboundNewPooledTxHashesOf(peer, Pool, hashes).peer
  /\ UNCHANGED <<by_account, by_hash, by_score, block, config, panicked, tasks, events,
                 finder, reconcile, peers, queue>>

\* PeerMsg::InboundGetPooledTxs(data): the transactions the pool finds are
\* marked known and sent
InboundGetPooledTxs(hashes) ==
  /\ peer' = InsertKnownAll(peer, SelectSeq(hashes, LAMBDA h : FindByHash(by_hash, h) # NoTx))
  /\ UNCHANGED <<by_account, by_hash, by_score, block, config, panicked, tasks, events,
                 finder, reconcile, peers, queue>>

\* a check of the returned transactions that ignores their order
MatchingAnyOrder(req, got) ==
  \A k \in 1..Len(got) : \E j \in 1..Len(req) : got[k] = req[j]

\* the check of Peer::inbound_pooled_tx that the returned transactions are
\* the ones asked for: both iterators only move forward, every returned
\* transaction has to be found in what is left of the request
RECURSIVE Matching(_, _)
Matching(req, got) ==
  IF got = <<>> THEN TRUE
  ELSE IF req = <<>> THEN FALSE
  ELSE IF Head(got) = Head(req) THEN Matching(Tail(req), Tail(got))
  ELSE Matching(Tail(req), got)

\* Pool::import of a list as inbound_pooled_tx awaits it: a sender with a
\* bucket is inserted with the bucket's info, another one with what the
\* world state tells at the known block; the results are dropped
RECURSIVE ImportList(_, _)
ImportList(p, txs) ==
  IF txs = <<>> THEN p
  ELSE LET tx == Head(txs)
           info == IF p.by_account[Author(tx)].present THEN p.by_account[Author(tx)].info
                   ELSE WorldState(p.block.hash, Author(tx))
           account == [some |-> TRUE, info |-> info, hash |-> p.block.hash]
       IN ImportList(TransactionsInsert(p, tx, account, 0).p, Tail(txs))

\* Peer::inbound_pooled_tx(data) for the message (req_id, txs): the entry
\* of requested is taken out, a missing entry is an error; transactions
\* that do not match the request are an error; otherwise every transaction
\* is marked known and the list goes to Pool::import
InboundPooledTxOf(pr, req_id, txs) ==
  IF ~pr.requested[req_id].present
  THEN [ok |-> FALSE, peer |-> pr, imported |-> <<>>]
  ELSE LET req == pr.requested[req_id].hashes
           removed == [pr EXCEPT !.requested[req_id] = NoRequest]
       IN IF ~Matching(req, txs)
          THEN [ok |-> FALSE, peer |-> removed, imported |-> <<>>]
          ELSE [ok |-> TRUE, peer |-> InsertKnownAll(removed, txs), imported |-> txs]

\* PeerMsg::InboundPooledTx(data)
InboundPooledTx(req_id, txs) ==
  LET r == InboundPooledTxOf(peer, req_id, txs) IN
  /\ ~panicked
  /\ HeapLen(by_score.sorting) + Len(txs) <= MaxHeapLen
  /\ peer' = r.peer
  /\ Store(ImportList(Pool, r.imported))
  /\ UNCHANGED <<tasks, events, finder, reconcile, peers, queue>>

\* the messages of the run_loop of one peer, beside a pool that imports
PeerNext ==
  \/ \E tx \in TxIds, info \in Infos, hash \in BlockHashes : Import(tx, info, hash)
  \/ \E new \in Queries : IncludedTxs(new)
  \/ \E hashes \in Queries : InboundNewPooledTxHashes(hashes)
  \/ \E hashes \in Queries : InboundGetPooledTxs(hashes)
  \/ \E req_id \in ReqIds, txs \in Queries : InboundPooledTx(req_id, txs)

PeerSpec == Init /\ [][PeerNext]_vars

\* the entries requested can hold under one request id
Requests == {NoRequest} \cup {[present |-> TRUE, hashes |-> q] : q \in Queries}

\* inbound_pooled_tx as a function of the fields of the session: a session
\* whose requested holds any entries
PooledInit ==
  /\ by_account = [a \in Addrs |-> NoAccount]
  /\ by_hash = [t \in TxIds |-> Absent]
  /\ by_score = [sorting |-> [t \in TxIds |-> 0], pending_removal |-> {}]
  /\ block = [hash |-> 0, base_fee |-> 0]
  /\ config \in Configs
  /\ panicked = FALSE
  /\ tasks = [i \in Procs |-> IdleTask]
  /\ events = <<>>
  /\ finder = IdleFinder
  /\ reconcile = NoReconcile
  /\ peer \in {[PeerNew EXCEPT !.requested = rq] : rq \in [ReqIds -> Requests]}
  /\ peers = PeersNew(2021)
  /\ queue = AsyncQueueNew(1, 1)

PooledNext == \E req_id \in ReqIds, txs \in Queries : InboundPooledTx(req_id, txs)

PooledSpec == PooledInit /\ [][PooledNext]_vars

-----------------------------------------------------------------------------
(* AsyncQueue and the worker thread of ExecutionQueue.  Every method runs    *)
(* under the Mutex of items, so a call is one step; a thread inside          *)
(* cvar.wait has released the Mutex and goes on when it is woken.            *)

\* the pool and the peer session as Init leaves them
IdleBeside ==
  /\ by_account = [a \in Addrs |-> NoAccount]
  /\ by_hash = [t \in TxIds |-> Absent]
  /\ by_score = [sorting |-> [t \in TxIds |-> 0], pending_removal |-> {}]
  /\ block = [hash |-> 0, base_fee |-> 0]
  /\ config \in Configs
  /\ panicked = FALSE
  /\ tasks = [i \in Procs |-> IdleTask]
  /\ events = <<>>
  /\ finder = IdleFinder
  /\ reconcile = NoReconcile
  /\ peer = PeerNew

\* cvar.notify_all(): a thread waiting on the Condvar is woken
NotifyAll(q) == [q EXCEPT !.woken = (q.worker = "waiting")]

\* an enqueue that lets one item more in than max_items
EnqueueOverfull(q, item) ==
  IF ~q.ended
  THEN IF Len(q.items) > q.max_items THEN [q |-> q, ret |-> FALSE]
       ELSE [q |-> NotifyAll([q EXCEPT !.items = Append(@, item)]), ret |-> TRUE]
  ELSE [q |-> q, ret |-> FALSE]

\* AsyncQueue::enqueue(item): the queue afterwards and the returned bool
EnqueueOf(q, item) ==
  IF ~q.ended
  THEN IF Len(q.items) >= q.max_items THEN [q |-> q, ret |-> FALSE]
       ELSE [q |-> NotifyAll([q EXCEPT !.items = Append(@, item)]), ret |-> TRUE]
  ELSE [q |-> q, ret |-> FALSE]

\* a drain that takes everything that is queued
DrainAll(q) == Len(q.items)

\* the number of items wait_for_batch drains: `len if len < self.batch_size`
\* takes len, the other arm takes batch_size
DrainLen(q) == IF Len(q.items) < q.batch_size THEN Len(q.items) ELSE q.batch_size

\* one pass of the loop of AsyncQueue::wait_for_batch by the worker: None on
\* an ended queue, which ends the `while let` of the thread; cvar.wait on an
\* empty queue; otherwise the drained batch goes to exec
WaitForBatchOf(q) ==
  IF q.ended THEN [q EXCEPT !.worker = "ended", !.woken = FALSE]
  ELSE IF Len(q.items) = 0 THEN [q EXCEPT !.worker = "waiting", !.woken = FALSE]
  ELSE [q EXCEPT !.items = SubSeq(q.items, DrainLen(q) + 1, Len(q.items)),
                 !.batch = SubSeq(q.items, 1, DrainLen(q)),
                 !.taken = @ \o SubSeq(q.items, 1, DrainLen(q)),
                 !.worker = "exec", !.woken = FALSE]

\* an end that leaves the waiting threads asleep
EndSilent(q) == [q EXCEPT !.items = <<>>, !.ended = TRUE]

\* AsyncQueue::end(): *items = None; cvar.notify_all()
EndOf(q) == NotifyAll([q EXCEPT !.items = <<>>, !.ended = TRUE])

\* a caller enqueues the next item
Enqueue ==
  /\ queue.calls < MaxEnqueue
  /\ LET r == EnqueueOf(queue, queue.calls + 1) IN
     queue' = [r.q EXCEPT !.calls = @ + 1,
                          !.accepted = IF r.ret THEN Append(@, queue.calls + 1) ELSE @]
  /\ UNCHANGED <<by_account, by_hash, by_score, block, config, panicked, tasks, events,
                 finder, reconcile, peer, peers>>

\* the worker thread calls wait_for_batch
WaitForBatch ==
  /\ queue.worker = "running"
  /\ queue' = WaitForBatchOf(queue)
  /\ UNCHANGED <<by_account, by_hash, by_score, block, config, panicked, tasks, events,
                 finder, reconcile, peer, peers>>

\* the worker returns from cvar.wait after a notification and goes round
\* the loop
Wake ==
  /\ queue.worker = "waiting"
  /\ queue.woken
  /\ queue' = WaitForBatchOf(queue)
  /\ UNCHANGED <<by_account, by_hash, by_score, block, config, panicked, tasks, events,
                 finder, reconcile, peer, peers>>

\* Condvar::wait may return without a notification
SpuriousWakeup ==
  /\ queue.worker = "waiting"
  /\ ~queue.woken
  /\ queue' = [queue EXCEPT !.woken = TRUE]
  /\ UNCHANGED <<by_account, by_hash, by_score, block, config, panicked, tasks, events,
                 finder, reconcile, peer, peers>>

\* exec(item) of the worker thread returns
Exec ==
  /\ queue.worker = "exec"
  /\ queue' = [queue EXCEPT !.worker = "running", !.batch = <<>>]
  /\ UNCHANGED <<by_account, by_hash, by_score, block, config, panicked, tasks, events,
                 finder, reconcile, peer, peers>>

\* ExecutionQueue::end: async_queue.end(), then the join of the thread
End ==
  /\ queue.joiner = "none"
  /\ queue' = [EndOf(queue) EXCEPT !.joiner = "joining"]
  /\ UNCHANGED <<by_account, by_hash, by_score, block, config, panicked, tasks, events,
                 finder, reconcile, peer, peers>>

\* handle.join() returns when the thread has ended
Join ==
  /\ queue.joiner = "joining"
  /\ queue.worker = "ended"
  /\ queue' = [queue EXCEPT !.joiner = "joined"]
  /\ UNCHANGED <<by_account, by_hash, by_score, block, config, panicked, tasks, events,
                 finder, reconcile, peer, peers>>

QueueInit ==
  /\ IdleBeside
  /\ peers = PeersNew(2021)
  /\ queue \in {AsyncQueueNew(m, b) : m \in 1..MaxItems, b \in 0..MaxBatchSize}

\* the steps of the worker thread
Worker == WaitForBatch \/ Wake \/ Exec

QueueNext == Enqueue \/ Worker \/ SpuriousWakeup \/ End \/ Join

QueueSpec == QueueInit /\ [][QueueNext]_vars

\* the scheduler runs the worker thread and the joining thread
QueueFairSpec == QueueSpec /\ WF_vars(Worker) /\ WF_vars(Join)

-----------------------------------------------------------------------------
(* Peers: the map of the sessions behind a tokio RwLock, Peers::inbound,     *)
(* the Announcer of the pool and the fan-out task spawned by Peers::new.     *)
(* A write section and a read section without an await in it are one step.  *)

\* the read guards of the RwLock peers that calls of inbound hold
ReadGuards == {c \in Callers : peers.calls[c].read}

\* whether the read guard taken in the scrutinee of the `if let` of
\* Peers::inbound is still held in its else block
GuardHeldInElse(edition) == edition # 2024

\* PeerMsg: the n-th message of the sentry stream, and IncludedTxs(txs)
InboundMsg(n) == [kind |-> "inbound", msg |-> n, txs |-> <<>>]
IncludedTxsMsg(txs) == [kind |-> "included", msg |-> 0, txs |-> txs]

\* UnboundedSender::send on the channel of a PeerHandle
Send(ps, peer_id, message) ==
  [ps EXCEPT !.handles[peer_id].channel = Append(@, message)]

\* Peers::new_peer and the insert into the vacant entry: a channel and a
\* spawned session task
NewPeer(ps, peer_id) ==
  [ps EXCEPT !.handles[peer_id] = [present |-> TRUE, channel |-> <<>>],
             !.sessions[peer_id] = @ + 1]

\* the sentry stream hands the next message, of the peer peer_id, to
\* Peers::inbound; a message id that is none of the three pool messages
\* returns at once
InboundStart(c, peer_id, pooled) ==
  /\ peers.calls[c].pc = "idle"
  /\ peers.arrived < MaxInbound
  /\ peers' = [peers EXCEPT
                 !.arrived = @ + 1,
                 !.calls[c] = [pc |-> IF pooled THEN "read" ELSE "done",
                               peer_id |-> peer_id, msg |-> peers.arrived + 1,
                               read |-> FALSE]]
  /\ UNCHANGED <<by_account, by_hash, by_score, block, config, panicked, tasks, events,
                 finder, reconcile, peer, queue>>

\* `if let Some(handle) = self.peers.read().await.get(peer_id)`: with a
\* handle the message is sent; without one the call goes on to the else block
InboundRead(c) ==
  LET call == peers.calls[c] IN
  /\ call.pc = "read"
  /\ peers' =
       IF peers.handles[call.peer_id].present
       THEN [Send(peers, call.peer_id, InboundMsg(call.msg))
               EXCEPT !.calls[c].pc = "done"]
       ELSE [peers EXCEPT !.calls[c].pc = "write",
                          !.calls[c].read = GuardHeldInElse(peers.edition)]
  /\ UNCHANGED <<by_account, by_hash, by_score, block, config, panicked, tasks, events,
                 finder, reconcile, peer, queue>>

\* the else block: self.peers.write().await is granted when no read guard is
\* out; an occupied entry gets the message, a vacant one a new session first
InboundWrite(c) ==
  LET call == peers.calls[c]
      entry == IF peers.handles[call.peer_id].present THEN peers
               ELSE NewPeer(peers, call.peer_id)
  IN
  /\ call.pc = "write"
  /\ ReadGuards = {}
  /\ peers' = [Send(entry, call.peer_id, InboundMsg(call.msg))
                 EXCEPT !.calls[c].pc = "done"]
  /\ UNCHANGED <<by_account, by_hash, by_score, block, config, panicked, tasks, events,
                 finder, reconcile, peer, queue>>

\* Peers::inbound returns
InboundReturn(c) ==
  /\ peers.calls[c].pc = "done"
  /\ peers' = [peers EXCEPT !.calls[c] = IdleCall]
  /\ UNCHANGED <<by_account, by_hash, by_score, block, config, panicked, tasks, events,
                 finder, reconcile, peer, queue>>

\* Peers::disconnect_peer: the handle is dropped under the write lock, the
\* session's recv returns None and its run_loop ends
DisconnectPeer(peer_id) ==
  /\ ReadGuards = {}
  /\ peers.handles[peer_id].present
  /\ peers' = [peers EXCEPT !.handles[peer_id] = [present |-> FALSE, channel |-> <<>>],
                            !.sessions[peer_id] = @ - 1]
  /\ UNCHANGED <<by_account, by_hash, by_score, block, config, panicked, tasks, events,
                 finder, reconcile, peer, queue>>

\* Peer::run_loop: rc.recv() takes the next message of the channel
SessionRecv(peer_id) ==
  /\ peers.handles[peer_id].present
  /\ peers.handles[peer_id].channel # <<>>
  /\ peers' = [peers EXCEPT !.handles[peer_id].channel = Tail(@)]
  /\ UNCHANGED <<by_account, by_hash, by_score, block, config, panicked, tasks, events,
                 finder, reconcile, peer, queue>>

\* Announcer::inserted of Peers for the next inserted transaction: push to
\* tx_buffer, notify_one, which leaves a permit when the task is not waiting
Inserted ==
  /\ peers.inserted < MaxInserted
  /\ peers' = [peers EXCEPT !.tx_buffer = Append(@, peers.inserted + 1),
                            !.inserted = @ + 1, !.permit = TRUE]
  /\ UNCHANGED <<by_account, by_hash, by_score, block, config, panicked, tasks, events,
                 finder, reconcile, peer, queue>>

\* the fan-out task: notify_tx_buffer.notified().await returns
FanoutNotified ==
  /\ peers.fanout.pc = "notified"
  /\ peers.permit
  /\ peers' = [peers EXCEPT !.permit = FALSE, !.fanout.pc = "sleep"]
  /\ UNCHANGED <<by_account, by_hash, by_score, block, config, panicked, tasks, events,
                 finder, reconcile, peer, queue>>

\* after the sleep of 50 ms: std::mem::take of the buffer
FanoutTake ==
  /\ peers.fanout.pc = "sleep"
  /\ peers' = [peers EXCEPT !.fanout = [pc |-> "send", txs |-> peers.tx_buffer],
                            !.tx_buffer = <<>>]
  /\ UNCHANGED <<by_account, by_hash, by_score, block, config, panicked, tasks, events,
                 finder, reconcile, peer, queue>>

\* PeerMsg::IncludedTxs goes to the channel of every handle under the read
\* lock; then the async block is at its end: the sleep of one second is its
\* value and nothing leads back to notified()
FanoutSend ==
  /\ peers.fanout.pc = "send"
  /\ peers' = [peers EXCEPT
                 !.handles = [id \in PeerIds |->
                    IF peers.handles[id].present
                    THEN [peers.handles[id] EXCEPT
                            !.channel = Append(@, IncludedTxsMsg(peers.fanout.txs))]
                    ELSE peers.handles[id]],
                 !.fanout = [pc |-> "finished", txs |-> <<>>]]
  /\ UNCHANGED <<by_account, by_hash, by_score, block, config, panicked, tasks, events,
                 finder, reconcile, peer, queue>>

PeersInit ==
  /\ IdleBeside
  /\ peers \in {PeersNew(edition) : edition \in Editions}
  /\ queue = AsyncQueueNew(1, 1)

\* the steps of one call of Peers::inbound after it was made
InboundCall(c) == InboundRead(c) \/ InboundWrite(c) \/ InboundReturn(c)

\* the steps of the fan-out task
Fanout == FanoutNotified \/ FanoutTake \/ FanoutSend

PeersNext ==
  \/ \E c \in Callers, peer_id \in PeerIds, pooled \in BOOLEAN :
        InboundStart(c, peer_id, pooled)
  \/ \E c \in Callers : InboundCall(c)
  \/ \E peer_id \in PeerIds : DisconnectPeer(peer_id)
  \/ \E peer_id \in PeerIds : SessionRecv(peer_id)
  \/ Inserted
  \/ Fanout

PeersSpec == PeersInit /\ [][PeersNext]_vars

\* the tokio runtime polls every task that can go on
PeersFairSpec ==
  /\ PeersSpec
  /\ \A c \in Callers : WF_vars(InboundCall(c))
  /\ \A peer_id \in PeerIds : WF_vars(SessionRecv(peer_id))
  /\ WF_vars(Fanout)

-----------------------------------------------------------------------------
(* GrpcPool::add, the Add RPC *)

\* the raw transactions of a request: the encoding of a pool transaction,
\* bytes that do not decode, and a transaction whose signature gives no
\* author
RawTxs ==
  {[kind |-> "tx", tx |-> t] : t \in TxIds}
    \cup {[kind |-> "undecodable", tx |-> NoTx], [kind |-> "unrecoverable", tx |-> NoTx]}

AddRequests == UNION {[1..n -> RawTxs] : n \in 0..MaxBatch}

\* .map(|t| Transaction::decode(t)).filter(|t| t.is_ok()).map(|t| t.unwrap())
Decoded(rlp_txs) == SelectSeq(rlp_txs, LAMBDA raw : raw.kind # "undecodable")

\* GrpcPool::add(request): the status of the call, the transactions handed
\* to pool.import, and the errors field of the reply
GrpcAdd(rlp_txs) ==
  LET vec == Decoded(rlp_txs) IN
  IF \E k \in 1..Len(vec) : vec[k].kind = "unrecoverable"
  THEN [status |-> "Internal", imported |-> <<>>, errors |-> <<>>]
  ELSE [status |-> "Ok", imported |-> [k \in 1..Len(vec) |-> vec[k].tx],
        errors |-> <<"String">>]

-----------------------------------------------------------------------------
(* Properties *)

\* how often the bucket of address a holds the hash t
Occurrences(a, t) ==
  Cardinality({i \in 1..Len(by_account[a].transactions) : by_account[a].transactions[i] = t})

\* the heap entries of hash t that are not marked for removal
LiveEntries(t) ==
  IF t \in by_score.pending_removal THEN 0 ELSE by_score.sorting[t]

\* the sum of the costs of the first k transactions of a list
RECURSIVE PrefixCost(_, _)
PrefixCost(txs, k) == IF k = 0 THEN 0 ELSE PrefixCost(txs, k - 1) + Cost(txs[k])

\* C1: by_hash and the buckets agree: a hash of by_hash is held exactly once
\* by the bucket of its author and by no other bucket, and a bucket holds
\* only hashes of by_hash.
C1_HashIndexMatchesBuckets ==
  \A t \in TxIds :
    IF by_hash[t] # Absent
    THEN /\ Occurrences(Author(t), t) = 1
         /\ \A a \in Addrs \ {Author(t)} : Occurrences(a, t) = 0
    ELSE \A a \in Addrs : Occurrences(a, t) = 0

\* C1 witness: both senders have a transaction pooled, and one left the pool
\* leaving an entry behind in the heap
C1_Witness ==
  /\ \A a \in Addrs : by_account[a].present /\ by_account[a].transactions # <<>>
  /\ \E t \in TxIds : by_hash[t] = Absent /\ by_score.sorting[t] > 0

\* C2: every hash of by_hash has exactly one heap entry that is not pending
\* for removal, and a hash outside by_hash has none.
C2_OneLiveHeapEntry ==
  \A t \in TxIds : LiveEntries(t) = (IF by_hash[t] # Absent THEN 1 ELSE 0)

\* C3: by_hash never holds more than config.max transactions.
C3_GlobalCap == HashLen(Pool) <= config.max

\* C4: the lowest queued nonce of every bucket is above the bucket's
\* account nonce.
C4_NonceFloor ==
  \A a \in Addrs :
    (by_account[a].present /\ by_account[a].transactions # <<>>)
      => Nonce(by_account[a].transactions[1]) > by_account[a].info.nonce

\* C5: in every bucket the costs of every prefix of the transaction list
\* sum up to at most the account balance.
C5_PrefixFunded ==
  \A a \in Addrs : \A k \in 1..Len(by_account[a].transactions) :
    PrefixCost(by_account[a].transactions, k) <= by_account[a].info.balance

\* C5 witness: a bucket of two transactions that the balance could not fund
\* together with a third queued one
C5_Witness ==
  \E a \in Addrs :
    /\ Len(by_account[a].transactions) = 2
    /\ \E t \in TxIds :
         /\ Author(t) = a /\ by_hash[t] = Absent /\ by_score.sorting[t] > 0
         /\ PrefixCost(by_account[a].transactions, 2) + Cost(t) > by_account[a].info.balance

\* C6: the nonces of every bucket's transaction list increase strictly.
C6_NoncesIncrease ==
  \A a \in Addrs : \A i, j \in 1..Len(by_account[a].transactions) :
    i < j => Nonce(by_account[a].transactions[i]) < Nonce(by_account[a].transactions[j])

\* C6 witness: a bucket of two transactions with a gap between the nonces
C6_Witness ==
  \E a \in Addrs :
    /\ Len(by_account[a].transactions) = 2
    /\ Nonce(by_account[a].transactions[2]) > Nonce(by_account[a].transactions[1]) + 1

\* C7: no bucket holds more than config.per_account transactions.
C7_PerAccountCap ==
  \A a \in Addrs : Len(by_account[a].transactions) <= config.per_account

\* C7 witness: a full bucket below the global cap, so that only the
\* per-account limit stands against a further transaction of the sender
C7_Witness ==
  \E a \in Addrs :
    /\ Len(by_account[a].transactions) = config.per_account
    /\ HashLen(Pool) < config.max

\* the score an old transaction must be outbid with: old.score + (old.score >> 3)
BumpedScore(old) == Score(old) + Shr(Score(old), BUMP_SCORE_BY_12_5_PERC)

\* B is queued and A is another transaction of the same sender and nonce
SameNonceRival(A, B) ==
  /\ A # B /\ Author(A) = Author(B) /\ Nonce(A) = Nonce(B)
  /\ by_hash[B] # Absent

\* the errors an insert reports to its caller
TypedErrors ==
  {"AlreadyPresent", "NotInsertedPoolFullIncreaseGas", "NotInsertedWrongNonce",
   "NotInsertedBalanceInsufficient", "NotInsertedTxPerAccountFull", "NotReplacedIncreaseGas"}

\* the result of the insert that the import of tx with this account makes
ImportResult(tx, info, hash) ==
  TransactionsInsert(Pool, tx, [some |-> TRUE, info |-> info, hash |-> hash], 0)

\* C8: in every state, an import of A against a queued B of the same
\* sender and nonce whose score is below B's score bumped by 12.5% does not
\* replace B: A stays out and B stays in; so whenever A replaces B,
\* A.score >= B.score + (B.score >> 3).
C8_ReplaceNeedsBumpedScore ==
  \A A, B \in TxIds : \A info \in Infos, hash \in BlockHashes :
    (SameNonceRival(A, B) /\ Score(A) < BumpedScore(B))
      => LET r == ImportResult(A, info, hash) IN
         /\ r.err # ""
         /\ r.p.by_hash[A] = Absent
         /\ r.p.by_hash[B] # Absent

\* C9: in every state, an import of A against a queued B of the same sender
\* and nonce with A.score = B.score + (B.score >> 3) is not refused as
\* underpriced, and when it goes through A is pooled and B has left by_hash
\* and its bucket and is reported as replaced.
C9_ScoreAtBumpAccepted ==
  \A A, B \in TxIds : \A info \in Infos, hash \in BlockHashes :
    (SameNonceRival(A, B) /\ Score(A) = BumpedScore(B))
      => LET r == ImportResult(A, info, hash) IN
         /\ r.err # "NotReplacedIncreaseGas"
         /\ r.err = ""
              => /\ r.p.by_hash[A] # Absent
                 /\ r.p.by_hash[B] = Absent
                 /\ \A i \in 1..Len(r.p.by_account[Author(B)].transactions) :
                       r.p.by_account[Author(B)].transactions[i] # B
                 /\ \E i \in 1..Len(r.removed) : r.removed[i] = <<B, "RemovedTxReplaced">>

\* C10: in every state, an import that fails with a typed error leaves
\* by_hash, by_score, the buckets with their account infos and the block as
\* they were.
C10_FailedInsertChangesNothing ==
  \A tx \in TxIds : \A info \in Infos, hash \in BlockHashes :
    LET r == ImportResult(tx, info, hash) IN
    r.err \in TypedErrors => r.p = Pool

\* the lowest score among the transactions of by_hash
MinPooledScore ==
  CHOOSE m \in {Score(t) : t \in {u \in TxIds : by_hash[u] # Absent}} :
    \A t \in TxIds : by_hash[t] # Absent => m <= Score(t)

\* C11: in every state whose by_hash holds config.max transactions, the
\* insert of a transaction that is not pooled and scores at most the lowest
\* pooled score fails with NotInsertedPoolFullIncreaseGas; the insert of one
\* that scores higher, when it succeeds, reports as RemovedTxLimitHit only a
\* pooled transaction of the lowest score, never the inserted one.
C11_FullPoolAdmitsOnlyBetter ==
  \A tx \in TxIds : \A info \in Infos, hash \in BlockHashes :
    (HashLen(Pool) = config.max /\ by_hash[tx] = Absent)
      => LET r == ImportResult(tx, info, hash) IN
         /\ Score(tx) <= MinPooledScore => r.err = "NotInsertedPoolFullIncreaseGas"
         /\ (Score(tx) > MinPooledScore /\ r.err = "")
              => \A i \in 1..Len(r.removed) :
                   r.removed[i][2] = "RemovedTxLimitHit"
                     => /\ r.removed[i][1] # tx
                        /\ by_hash[r.removed[i][1]] # Absent
                        /\ Score(r.removed[i][1]) = MinPooledScore

\* C11 restricted to the states in which the heap holds exactly one live
\* entry per pooled hash
C11_WithSoundHeap == C2_OneLiveHeapEntry => C11_FullPoolAdmitsOnlyBetter

\* the number of transactions of a list with a nonce below n
LowerNonces(txs, n) == Cardinality({i \in 1..Len(txs) : Nonce(txs[i]) < n})

\* the live heap entries of hash t in the pool record p
LiveEntriesOf(p, t) == IF t \in p.pending_removal THEN 0 ELSE p.sorting[t]

\* tx is not pooled, its sender's bucket is full, no queued transaction of
\* the sender has its nonce, and the insert gets as far as the placement:
\* the pool-full test lets it pass and the balance funds it at its position
FullBucketNewNonce(tx) ==
  LET acc == by_account[Author(tx)]
      txs == acc.transactions
  IN /\ by_hash[tx] = Absent
     /\ acc.present /\ txs # <<>>
     /\ Len(txs) = config.per_account
     /\ \A i \in 1..Len(txs) : Nonce(txs[i]) # Nonce(tx)
     /\ ~(HashLen(Pool) >= config.max /\ Score(tx) <= Score(HeapPeek(by_score.sorting)))
     /\ PrefixCost(txs, LowerNonces(txs, Nonce(tx))) + Cost(tx) <= acc.info.balance

\* C12: in every state, for a transaction that reaches the placement into
\* its sender's full bucket with a nonce no queued transaction has: above
\* every queued nonce the insert fails with NotInsertedTxPerAccountFull and
\* changes nothing; below the highest queued nonce it succeeds, and the
\* transaction of the highest nonce leaves by_hash, the bucket and the live
\* heap entries and is reported as RemovedTxReplaced.
C12_FullBucketPlacement ==
  \A tx \in TxIds : \A info \in Infos, hash \in BlockHashes :
    FullBucketNewNonce(tx)
      => LET txs == by_account[Author(tx)].transactions
             tail == txs[Len(txs)]
             r == ImportResult(tx, info, hash)
         IN IF Nonce(tx) > Nonce(tail)
            THEN r.err = "NotInsertedTxPerAccountFull" /\ r.p = Pool
            ELSE /\ r.err = ""
                 /\ r.p.by_hash[tx] # Absent
                 /\ r.p.by_hash[tail] = Absent
                 /\ \A i \in 1..Len(r.p.by_account[Author(tx)].transactions) :
                       r.p.by_account[Author(tx)].transactions[i] # tail
                 /\ LiveEntriesOf(r.p, tail) = 0
                 /\ \E i \in 1..Len(r.removed) : r.removed[i] = <<tail, "RemovedTxReplaced">>

\* C12 witness: a full bucket, with one transaction that would go to its
\* tail and another that would go before its tail
C12_Witness ==
  \E t, u \in TxIds :
    /\ Author(t) = Author(u)
    /\ FullBucketNewNonce(t) /\ FullBucketNewNonce(u)
    /\ LET txs == by_account[Author(t)].transactions IN
       Nonce(t) > Nonce(txs[Len(txs)]) /\ Nonce(u) < Nonce(txs[Len(txs)])

\* C12 restricted to the states in which the heap holds exactly one live
\* entry per pooled hash
C12_WithSoundHeap == C2_OneLiveHeapEntry => C12_FullBucketPlacement

\* the events of the list that report a removal of t
RemovedIn(list, t) == {k \in 1..Len(list) : list[k][1] = t /\ list[k][2] # "Inserted"}

\* a removal of t was announced or waits to be announced
RemovedEver(t) ==
  \/ RemovedIn(events, t) # {}
  \/ \E i \in Procs : RemovedIn(tasks[i].pending, t) # {}

\* the Inserted events of t, announced or waiting to be announced
InsertedCount(t) ==
  Cardinality({k \in 1..Len(events) : events[k] = <<t, "Inserted">>})
  + Cardinality({i \in Procs : tasks[i].pc = "announce" /\ tasks[i].tx = t})

\* as long as no removal of t happened, t has one Inserted event when it is
\* pooled and none when it is not
C13_OneInsertedEvent ==
  \A t \in TxIds :
    ~RemovedEver(t) => InsertedCount(t) = (IF by_hash[t] # Absent THEN 1 ELSE 0)

\* a handler that reaches its insert with a pooled transaction ends with
\* AlreadyPresent, and the step changes neither the pool nor the events
C13_SecondInsertStep ==
  \A i \in Procs :
    (tasks[i].pc = "write" /\ tasks'[i].pc # "write" /\ by_hash[tasks[i].tx] # Absent)
      => /\ tasks'[i].pc = "done"
         /\ tasks'[i].result = "AlreadyPresent"
         /\ tasks'[i].pending = <<>>
         /\ UNCHANGED <<by_account, by_hash, by_score, block, events>>

\* C13: importing a transaction that is pooled, with no removal of it in
\* between, returns AlreadyPresent, publishes nothing and leaves the pool
\* as it is, so that the transaction has exactly one Inserted event; under
\* every interleaving of the import handlers.
C13_ImportIdempotent == []C13_OneInsertedEvent /\ [][C13_SecondInsertStep]_vars

\* C13 witness: two handlers took the same transaction; one has inserted it
\* and not yet announced it, the other has ended with AlreadyPresent
C13_Witness ==
  \E i, j \in Procs :
    /\ i # j /\ tasks[i].tx = tasks[j].tx
    /\ tasks[i].pc = "announce"
    /\ tasks[j].pc = "done" /\ tasks[j].result = "AlreadyPresent"

\* the hashes of a list that are not pooled, in the order of the list
UnknownOf(hashes) == SelectSeq(hashes, LAMBDA h : by_hash[h] = Absent)

\* C14: in every state and for every list of hashes, filter_by_negative
\* returns the hashes of the list that are not in the pool, in the order of
\* the list.
C14_FilterReturnsUnknown ==
  \A hashes \in Queries : \A out \in FilterByNegative(Pool, hashes) :
    out = UnknownOf(hashes)

\* C15: while find holds the answer it is building, every position filled so
\* far holds the pooled transaction of the hash asked at that position, or
\* None when the pool of this one state does not hold the hash; the answer it
\* returns has the length of the input.
C15_FindAnswersInPlace ==
  finder.locked =>
    /\ Len(finder.out) <= Len(finder.hashes)
    /\ \A i \in 1..Len(finder.out) :
         finder.out[i] = (IF by_hash[finder.hashes[i]] # Absent
                          THEN finder.hashes[i] ELSE NoTx)

\* a complete answer of two positions, None and then a found transaction,
\* while the pool holds another transaction that was not asked for
C15_Witness ==
  /\ finder.locked
  /\ Len(finder.hashes) = MaxQuery
  /\ Len(finder.out) = Len(finder.hashes)
  /\ finder.out[1] = NoTx
  /\ finder.out[2] # NoTx
  /\ \E t \in TxIds : by_hash[t] # Absent /\ t # finder.out[2]

\* the transactions of sender a that new_pending_block emits, in the order
\* of emission
EmittedOf(a) == SelectSeq(PendingBlock(Pool).out, LAMBDA t : Author(t) = a)

\* the nonces of the emitted transactions of every sender run upwards
\* without a gap from account.nonce + 1
C16_RunStartsAboveAccountNonce ==
  \A a \in Addrs : \A k \in 1..Len(EmittedOf(a)) :
    Nonce(EmittedOf(a)[k]) = by_account[a].info.nonce + k

\* a queued transaction with nonce account.nonce + 1 and a score that is not
\* below the base fee is emitted
C16_NextNonceEmitted ==
  \A t \in TxIds :
    ( /\ by_hash[t] # Absent
      /\ by_account[Author(t)].present
      /\ Nonce(t) = by_account[Author(t)].info.nonce + 1
      /\ Score(t) >= block.base_fee )
    => \E k \in 1..Len(PendingBlock(Pool).out) : PendingBlock(Pool).out[k] = t

\* C16: for each sender the transactions emitted by new_pending_block are a
\* run of ascending nonces without a gap that starts at account.nonce + 1,
\* and a queued transaction with nonce account.nonce + 1 whose score is not
\* below the base fee is emitted.
C16_PendingNonceRun ==
  ~panicked => (C16_RunStartsAboveAccountNonce /\ C16_NextNonceEmitted)

\* the transactions the fee test of new_pending_block keeps out of the
\* pending block: the one the loop breaks on and all that would follow it
FeeExcluded ==
  LET visit == VisitOrder(BinaryHeapAndAccounts(Pool).sorting)
      stops == {k \in 1..Len(visit) : FeeBreak(visit[k], block.base_fee)}
  IN {visit[k] : k \in {j \in 1..Len(visit) : \E i \in stops : i <= j}}

\* C17: new_pending_block excludes a pooled transaction on fee grounds
\* exactly when its score is strictly below the base fee of the block.
C17_FeeFilterBelowBaseFee ==
  \A t \in TxIds :
    by_hash[t] # Absent => (t \in FeeExcluded <=> Score(t) < block.base_fee)

\* the scores of the list never go up
ScoresDescend(list) ==
  \A i, j \in 1..Len(list) : i < j => Score(list[i]) >= Score(list[j])

\* new_pending_block emits in descending score
C18_EmittedBestFirst == ScoresDescend(PendingBlock(Pool).out)

\* C18: new_pending_block visits the transactions in the best-to-worst
\* order of the score-sorted listing (into_sorted_vec: best score first,
\* ties by hash) and emits them in descending score.
C18_VisitsBestFirst ==
  LET sorting == BinaryHeapAndAccounts(Pool).sorting
  IN /\ VisitOrder(sorting) = IntoSortedVec(sorting)
     /\ ScoresDescend(VisitOrder(sorting))
     /\ C18_EmittedBestFirst

\* the block updates that change one account and revert nothing
OneAccountUpdates ==
  {Update(body, new_hash) : body \in {b \in UpdateBodies : Len(b.changed_accounts) = 1
                                                          /\ b.reverted_tx = <<>>},
                            new_hash \in BlockHashes \ {block.hash}}

\* the queued transactions of a bucket with a nonce above the given one
HigherNonces(txs, n) == SelectSeq(txs, LAMBDA t : Nonce(t) > n)

\* every queued transaction with nonce <= the new account nonce is gone from
\* by_hash and from the bucket and is reported with OnNewBlockNonce
C19_ObsoleteRemoved ==
  \A update \in OneAccountUpdates :
    LET c == update.changed_accounts[1]
        pre == by_account[c.address]
        r == TransactionsBlockUpdate(Pool, update, 0)
    IN \A k \in 1..Len(pre.transactions) :
         LET t == pre.transactions[k] IN
         Nonce(t) <= c.info.nonce =>
           /\ r.p.by_hash[t] = Absent
           /\ Position(r.p.by_account[c.address].transactions, t, 0)
                = Len(r.p.by_account[c.address].transactions)
           /\ \E i \in 1..Len(r.removed) : r.removed[i] = <<t, "OnNewBlockNonce">>

\* no heap entry of a removed obsolete transaction is left
C19_ObsoleteLeavesHeap ==
  \A update \in OneAccountUpdates :
    LET c == update.changed_accounts[1]
        pre == by_account[c.address]
        r == TransactionsBlockUpdate(Pool, update, 0)
    IN \A k \in 1..Len(pre.transactions) :
         Nonce(pre.transactions[k]) <= c.info.nonce
           => LiveEntriesOf(r.p, pre.transactions[k]) = 0

\* the bucket, if it is still there, carries the new AccountInfo
C19_InfoTakenOver ==
  \A update \in OneAccountUpdates :
    LET c == update.changed_accounts[1]
        r == TransactionsBlockUpdate(Pool, update, 0)
    IN (by_account[c.address].present /\ r.p.by_account[c.address].present)
         => r.p.by_account[c.address].info = c.info

\* a queued transaction with a higher nonce stays when the new balance
\* covers it together with the higher-nonce transactions queued before it
C19_FundedHigherKept ==
  \A update \in OneAccountUpdates :
    LET c == update.changed_accounts[1]
        pre == by_account[c.address]
        higher == HigherNonces(pre.transactions, c.info.nonce)
        r == TransactionsBlockUpdate(Pool, update, 0)
    IN \A k \in 1..Len(higher) :
         PrefixCost(higher, k) <= c.info.balance
           => /\ r.p.by_hash[higher[k]] # Absent
              /\ Position(r.p.by_account[c.address].transactions, higher[k], 0)
                   < Len(r.p.by_account[c.address].transactions)

\* C19: for a changed account with a bucket, block_update removes every
\* queued transaction with nonce <= the new account nonce from by_hash, the
\* bucket and the heap and reports it with OnNewBlockNonce, the bucket takes
\* over the new AccountInfo, and every funded transaction with a higher
\* nonce stays.
C19_BlockUpdateDropsObsolete ==
  ~panicked =>
    /\ C19_ObsoleteRemoved
    /\ C19_ObsoleteLeavesHeap
    /\ C19_InfoTakenOver
    /\ C19_FundedHigherKept

\* in the states with a sound heap and the nonce floor, block_update drops
\* the obsolete transactions as C19 says
C19_WithSoundPool ==
  (C2_OneLiveHeapEntry /\ C4_NonceFloor) => C19_BlockUpdateDropsObsolete

\* the block updates of a reorg that reverts the block of T and hands the
\* sender an account state with T.nonce > account.nonce and a balance that
\* pays for T
ReorgUpdates(T) ==
  {Update(body, new_hash) :
     body \in {b \in UpdateBodies :
                 /\ b.reverted_tx = <<T>>
                 /\ Len(b.changed_accounts) = 1
                 /\ b.changed_accounts[1].address = Author(T)
                 /\ Nonce(T) > b.changed_accounts[1].info.nonce
                 /\ Cost(T) <= b.changed_accounts[1].info.balance},
     new_hash \in BlockHashes \ {block.hash}}

\* T is in by_hash, in the bucket of its sender and in the heap, and find
\* returns it
BackInPool(p, T) ==
  /\ p.by_hash[T] # Absent
  /\ Position(p.by_account[Author(T)].transactions, T, 0)
       < Len(p.by_account[Author(T)].transactions)
  /\ LiveEntriesOf(p, T) >= 1
  /\ FindByHash(p.by_hash, T) = T

RoomFor(T, info) ==
  LET txs == by_account[Author(T)].transactions
  IN /\ by_hash[T] = Absent
     /\ HashLen(Pool) < config.max
     /\ Len(txs) < config.per_account
     /\ \A i \in 1..Len(txs) : Nonce(txs[i]) # Nonce(T)
     /\ PrefixCost(txs, LowerNonces(txs, Nonce(T))) + Cost(T) <= info.balance

C21_ImportTerminates ==
  \A i \in Procs : (tasks[i].pc # "idle") ~> (tasks[i].pc = "done" \/ panicked)

\* the commit of handler i: it leaves the write lock with its result
CommitOf(i) == tasks[i].pc = "write" /\ tasks'[i].pc # "write"

\* a commit creates a bucket only from an AccountInfo bound to the block
\* hash the pool knows at the commit, and a commit that finds no bucket and
\* carries another block hash changes nothing in the pool
C22_CommitStep ==
  \A i \in Procs :
    CommitOf(i) =>
      LET a == Author(tasks[i].tx) IN
      /\ (~by_account[a].present /\ by_account'[a].present)
           => (tasks[i].hash = block.hash /\ by_account'[a].info = tasks[i].info)
      /\ (~by_account[a].present /\ tasks[i].hash # block.hash)
           => /\ UNCHANGED <<by_account, by_hash, by_score, block>>
              /\ tasks'[i].pc \in {"read", "done"}

\* C22: a bucket is never created from an AccountInfo bound to a block hash
\* other than the pool's chain tip at commit time; when the tip changed
\* between the read and the commit, the value is discarded and nothing is
\* committed with it.
C22_NoBucketFromStaleInfo == [][C22_CommitStep]_vars

\* a handler was turned back with the value it fetched for the old tip,
\* while the other handler has created a bucket and is through
C22_Witness ==
  \E i, j \in Procs :
    /\ tasks[i].pc = "read"
    /\ tasks[i].info # NoAccount.info
    /\ tasks[i].hash # block.hash
    /\ tasks[j].pc = "done" /\ tasks[j].result = "Ok"
    /\ by_account[Author(tasks[j].tx)].present

\* the events about hash h, in the order of their publication
EventsOf(h) == SelectSeq(events, LAMBDA e : e[1] = h)

\* C23: the events of one hash are published in the order of their commits:
\* the commits of a hash alternate between insertion and removal and begin
\* with an insertion, so the published events of the hash begin with
\* Inserted and no removal is published before the insertion it follows.
C23_EventsInCommitOrder ==
  \A h \in TxIds : \A k \in 1..Len(EventsOf(h)) :
    (EventsOf(h)[k][2] = "Inserted") <=> (k % 2 = 1)

\* a block_update is between its change of the chain tip and the end of its
\* compaction
InReconcile == reconcile.phase # "none"

\* no find holds the pool while a block_update is at work
C24_NoReaderInReconcile == ~(finder.locked /\ InReconcile)

\* while a block_update is at work, only the block_update itself changes
\* the pool, and no find begins or goes on
C24_ReconcileStep ==
  (InReconcile /\ reconcile' = reconcile)
    => UNCHANGED <<by_account, by_hash, by_score, block, finder>>

\* C24: block_update is atomic for readers and imports: no find observes the
\* pool between the change of the chain tip and the end of pruning,
\* reinsertion and compaction, and no import commits in between.
C24_BlockUpdateAtomic == []C24_NoReaderInReconcile /\ [][C24_ReconcileStep]_vars

\* a block_update has changed the tip and pruned a bucket, the removed
\* entries still wait in the heap for the compaction, and no reader is in
C24_Witness ==
  /\ reconcile.phase = "pruned"
  /\ block.hash = reconcile.update.new_hash
  /\ by_score.pending_removal # {}
  /\ \E t \in TxIds : by_hash[t] # Absent
  /\ ~finder.locked

\* the import of handler i's transaction run at once on the pool as it is:
\* the bucket's info if there is a bucket, else the world state's answer for
\* the pool's block hash
ImportAtOnce(i) ==
  LET a == Author(tasks[i].tx) IN
  TransactionsInsert(Pool, tasks[i].tx,
    [some |-> TRUE,
     info |-> IF by_account[a].present THEN by_account[a].info
              ELSE WorldState(block.hash, a),
     hash |-> block.hash], 0)

\* a commit that ends the loop of handler i leaves the pool and the handler
\* as the import run at once at this moment would; a commit that sends the
\* handler back to the read changes nothing
C25_CommitStep ==
  \A i \in Procs :
    CommitOf(i) =>
      IF tasks'[i].pc = "read"
      THEN UNCHANGED <<by_account, by_hash, by_score, block>>
      ELSE LET r == ImportAtOnce(i) IN
           /\ by_account' = r.p.by_account
           /\ by_hash' = r.p.by_hash
           /\ by_score' = [sorting |-> r.p.sorting, pending_removal |-> r.p.pending_removal]
           /\ IF r.err = ""
              THEN /\ tasks'[i].pc = "announce"
                   /\ tasks'[i].pending = r.removed \o <<<<tasks[i].tx, "Inserted">>>>
              ELSE /\ tasks'[i].pc = "done"
                   /\ tasks'[i].result = r.err

\* C25: concurrent imports are serializable in the order of their commits:
\* under every interleaving of the reads, the world state fetches and the
\* commits, each commit leaves the pool and the call's result as the whole
\* import run alone at the moment of the commit would.
C25_ImportsSerializable == [][C25_CommitStep]_vars

\* both handlers import for one sender: one found no bucket when it read
\* and is asking the world state, the other has committed meanwhile and
\* created the bucket
C25_Witness ==
  \E i, j \in Procs :
    /\ i # j
    /\ tasks[i].pc = "fetch"
    /\ tasks[j].pc = "done" /\ tasks[j].result = "Ok"
    /\ Author(tasks[i].tx) = Author(tasks[j].tx)
    /\ tasks[i].tx # tasks[j].tx
    /\ by_hash[tasks[j].tx] # Absent
    /\ by_account[Author(tasks[i].tx)].present

\* C26: in a batch of the Add RPC a transaction that fails decoding or
\* sender recovery yields an error for itself only: every other transaction
\* of the batch is handed to the import, and the result list has one entry
\* per input transaction.
C26_BatchFailuresLocal ==
  ~panicked =>
    \A rlp_txs \in AddRequests :
      LET r == GrpcAdd(rlp_txs) IN
      /\ Len(r.errors) = Len(rlp_txs)
      /\ \A k \in 1..Len(rlp_txs) :
           rlp_txs[k].kind = "tx"
             => \E m \in 1..Len(r.imported) : r.imported[m] = rlp_txs[k].tx

\* the hashes of a list
Listed(hashes) == {hashes[k] : k \in 1..Len(hashes)}

\* the events of a list that are about hash h
EventsAbout(list, h) == {k \in 1..Len(list) : list[k][1] = h}

\* a listed hash of the pool is gone from by_hash and from its bucket and
\* gets exactly one event, with RemovedTxOnDemand; a listed hash that is not
\* pooled gets none
C27_ListedRemoved ==
  \A hashes \in Queries :
    LET r == PoolRemove(Pool, hashes) IN
    \A h \in Listed(hashes) :
      IF by_hash[h] # Absent
      THEN /\ r.p.by_hash[h] = Absent
           /\ Position(r.p.by_account[Author(h)].transactions, h, 0)
                = Len(r.p.by_account[Author(h)].transactions)
           /\ Cardinality(EventsAbout(r.events, h)) = 1
           /\ \A k \in EventsAbout(r.events, h) : r.events[k][2] = "RemovedTxOnDemand"
      ELSE EventsAbout(r.events, h) = {}

\* no live heap entry of a removed hash is left
C27_ListedLeavesHeap ==
  \A hashes \in Queries :
    \A h \in Listed(hashes) :
      by_hash[h] # Absent => LiveEntriesOf(PoolRemove(Pool, hashes).p, h) = 0

\* what is not listed stays: its by_hash entry, its heap entries, the
\* queue of its bucket but for the listed hashes, the AccountInfo of every
\* bucket that is left, and no event is about it
C27_RestUnchanged ==
  \A hashes \in Queries :
    LET r == PoolRemove(Pool, hashes) IN
    /\ \A t \in TxIds \ Listed(hashes) :
         /\ r.p.by_hash[t] = by_hash[t]
         /\ LiveEntriesOf(r.p, t) = LiveEntries(t)
         /\ EventsAbout(r.events, t) = {}
    /\ \A a \in Addrs :
         /\ r.p.by_account[a].transactions
              = SelectSeq(by_account[a].transactions, LAMBDA t : t \notin Listed(hashes))
         /\ r.p.by_account[a].present => r.p.by_account[a].info = by_account[a].info
    /\ r.p.block = block

\* C27: remove(hashes) takes every listed hash of the pool out of by_hash,
\* its bucket and the heap and fires exactly one removed event with
\* RemovedTxOnDemand for it; a listed hash that is not pooled causes no
\* event; every other transaction, bucket and AccountInfo stays as it is.
C27_RemoveOnDemand ==
  ~panicked => (C27_ListedRemoved /\ C27_ListedLeavesHeap /\ C27_RestUnchanged)

\* in the states with a sound heap remove does what C27 says
C27_WithSoundHeap == C2_OneLiveHeapEntry => C27_RemoveOnDemand

\* C28: for every batch of inserted transactions the session announces the
\* hashes of the batch the peer does not know yet, in the order of the
\* batch, sends nothing when none is left, and knows the announced hashes
\* afterwards; a hash the peer knows is not announced to it.
C28_AnnouncesUnknownOnly ==
  \A new \in Queries :
    LET r == PoolNewTx(peer, new) IN
    /\ \A k \in 1..Len(r.hashes) : ~IsKnown(peer, r.hashes[k])
    /\ \A k \in 1..Len(new) :
         ~IsKnown(peer, new[k]) => \E m \in 1..Len(r.hashes) : r.hashes[m] = new[k]
    /\ r.sent <=> (\E k \in 1..Len(new) : ~IsKnown(peer, new[k]))
    /\ \A k \in 1..Len(r.hashes) : IsKnown(r.peer, r.hashes[k])

\* C29: known never holds more than MAX_KNOWN_TX hashes.
C29_KnownBounded == Cardinality(peer.known) <= MAX_KNOWN_TX

\* the distinct hashes marked after the most recent marking of h: those in
\* front of the first entry of h in known_sorted
MarkedAfter(h) ==
  LET first == CHOOSE k \in 1..Len(peer.known_sorted) :
                 /\ peer.known_sorted[k] = h
                 /\ \A j \in 1..(k - 1) : peer.known_sorted[j] # h
  IN {peer.known_sorted[j] : j \in 1..(first - 1)}

\* C30: known evicts in least-recently-used order: a hash stays known until
\* MAX_KNOWN_TX other distinct hashes have been marked after its most recent
\* marking, and marking a known hash again refreshes it.
C30_EvictsLeastRecent ==
  \A h \in TxIds :
    ( /\ \E k \in 1..Len(peer.known_sorted) : peer.known_sorted[k] = h
      /\ Cardinality(MarkedAfter(h)) < MAX_KNOWN_TX )
    => IsKnown(peer, h)

\* the hashes of a list that by_hash does not hold, in the order of the list
AbsentOf(hashes) == SelectSeq(hashes, LAMBDA h : by_hash[h] = Absent)

\* C31: on an announcement the session marks every announced hash known and
\* sends a GetPooledTransactions with exactly the announced hashes that are
\* absent from the pool, in announced order; when every announced hash is in
\* the pool it sends no GetPooledTransactions
C31_AnnouncementRequestsAbsent ==
  \A hashes \in Queries :
     LET r == InboundNewPooledTxHashesOf(peer, Pool, hashes) IN
     /\ \A k \in 1..Len(hashes) : IsKnown(r.peer, hashes[k])
     /\ r.sent = (AbsentOf(hashes) # <<>>)
     /\ r.sent => r.request = AbsentOf(hashes)

\* got is an order-preserving subset of req: its elements are elements of
\* req at increasing places
IsSubSeq(got, req) ==
  \E at \in [1..Len(got) -> 1..Len(req)] :
     /\ \A k \in 1..Len(got) : got[k] = req[at[k]]
     /\ \A k, l \in 1..Len(got) : k < l => at[k] < at[l]

\* the transaction lists that are order-preserving subsets of a request
SubSeqsOf(req) == {txs \in Queries : IsSubSeq(txs, req)}

\* C32: every GetPooledTransactions a session sends is recorded in requested
\* under its request id, so that a later InboundPooled with that id and an
\* order-preserving subset of the requested transactions is accepted: the
\* entry is removed, the transactions go to Pool::import and their hashes are
\* marked known
C32_RequestRecordedAndAnswerAccepted ==
  \A hashes \in Queries :
     LET sent == InboundNewPooledTxHashesOf(peer, Pool, hashes) IN
     (sent.sent /\ sent.request # <<>>) =>
        \E req_id \in ReqIds :
           /\ sent.peer.requested[req_id] = [present |-> TRUE, hashes |-> sent.request]
           /\ \A txs \in SubSeqsOf(sent.request) :
                 LET r == InboundPooledTxOf(sent.peer, req_id, txs) IN
                 /\ r.ok
                 /\ ~r.peer.requested[req_id].present
                 /\ r.imported = txs
                 /\ Len(txs) <= MAX_KNOWN_TX
                       => \A k \in 1..Len(txs) : IsKnown(r.peer, txs[k])

\* the outcome of a rejected answer: an error, nothing for Pool::import and
\* the known hashes as they were
Rejected(r) ==
  /\ ~r.ok
  /\ r.imported = <<>>
  /\ r.peer.known = peer.known
  /\ r.peer.known_sorted = peer.known_sorted

PeriodicEvents(rem) == Tagged(rem, "RemovedTxTimeout")

\* a stalled transaction is gone from by_hash and from its bucket and has
\* exactly one event, with RemovedTxTimeout; a younger one keeps its entry
\* with its insertion time, stays in its bucket and has no event
C34_StalledRemoved ==
  \A rem \in Orders(StalledSet(Pool, config.timeout)) :
    LET r == PeriodicCheck(Pool, rem) IN
    \A t \in TxIds :
      IF by_hash[t] # Absent /\ by_hash[t] > config.timeout
      THEN /\ r.p.by_hash[t] = Absent
           /\ Position(r.p.by_account[Author(t)].transactions, t, 0)
                = Len(r.p.by_account[Author(t)].transactions)
           /\ Cardinality(EventsAbout(PeriodicEvents(r.rem), t)) = 1
           /\ \A k \in EventsAbout(PeriodicEvents(r.rem), t) :
                 PeriodicEvents(r.rem)[k][2] = "RemovedTxTimeout"
      ELSE /\ r.p.by_hash[t] = by_hash[t]
           /\ EventsAbout(PeriodicEvents(r.rem), t) = {}
           /\ by_hash[t] # Absent =>
                 /\ LiveEntriesOf(r.p, t) = LiveEntries(t)
                 /\ Position(r.p.by_account[Author(t)].transactions, t, 0)
                      < Len(r.p.by_account[Author(t)].transactions)

\* no live heap entry of a stalled transaction is left
C34_StalledLeavesHeap ==
  \A rem \in Orders(StalledSet(Pool, config.timeout)) :
    \A t \in StalledSet(Pool, config.timeout) :
      LiveEntriesOf(PeriodicCheck(Pool, rem).p, t) = 0

\* C34: a maintenance run removes from the three indices exactly the
\* transactions whose insertion time plus the timeout lies in the past and
\* fires one removed event with RemovedTxTimeout for each; younger
\* transactions stay; a transaction that enters the pool, reinserted and
\* replacing ones included, counts from its own insertion time.
C34_MaintenanceExpires ==
  ~panicked => (C34_StalledRemoved /\ C34_StalledLeavesHeap)

\* a transaction that enters the pool starts with the age zero
C34_EntersFresh ==
  [][\A t \in TxIds : (by_hash[t] = Absent /\ by_hash'[t] # Absent) => by_hash'[t] = 0]_vars

\* in the states with a sound heap the maintenance run does what C34 says
C34_WithSoundHeap == C2_OneLiveHeapEntry => C34_MaintenanceExpires

\* what Pool::block_update announces for an update: announcer.removed for
\* the first list Transactions::block_update returns, announcer.reinserted
\* for the second
BlockUpdateEvents(p, update) ==
  LET r == TransactionsBlockUpdate(p, update, 0) IN
  [p |-> r.p, removed |-> r.removed, reinserted |-> r.reinserted]

\* C39: every transaction that leaves the pool during a block_update is
\* reported in exactly one removed event, the transactions displaced by the
\* reinsertion of a reverted transaction included; every reverted
\* transaction that re-enters the pool is reported reinserted exactly once.
C39_BlockUpdateReportsAll ==
  ~panicked =>
    \A body \in UpdateBodies, new_hash \in BlockHashes \ {block.hash} :
      LET r == BlockUpdateEvents(Pool, Update(body, new_hash)) IN
      r.p.panic \/
        /\ \A t \in TxIds :
             (by_hash[t] # Absent /\ r.p.by_hash[t] = Absent)
                => Cardinality(EventsAbout(r.removed, t)) = 1
        /\ \A k \in 1..Len(body.reverted_tx) :
             LET t == body.reverted_tx[k] IN
             (by_hash[t] = Absent /\ r.p.by_hash[t] # Absent)
                => Cardinality({j \in 1..Len(r.reinserted) : r.reinserted[j] = t}) = 1

\* the items a caller can enqueue
Items == 1..MaxEnqueue

\* the queue is within max_items, and enqueue answers true and appends
\* exactly on a queue that is not ended and has room, else answers false and
\* changes nothing
C35_EnqueueContract ==
  /\ Len(queue.items) <= queue.max_items
  /\ \A item \in Items :
       LET r == EnqueueOf(queue, item) IN
       /\ r.ret = (~queue.ended /\ Len(queue.items) < queue.max_items)
       /\ r.ret => (r.q.items = Append(queue.items, item) /\ r.q.ended = queue.ended)
       /\ ~r.ret => r.q = queue

\* after a batch was taken the next enqueue succeeds
C35_RoomFreed ==
  queue'.taken # queue.taken => \A item \in Items : EnqueueOf(queue', item).ret

\* C35: AsyncQueue never holds more than max_items items; enqueue appends
\* and returns true exactly when the queue is not ended and holds fewer than
\* max_items items, otherwise it returns false and leaves the queue as it
\* is; room freed by a taken batch makes enqueue succeed again.
C35_BoundedEnqueue == []C35_EnqueueContract /\ [][C35_RoomFreed]_vars

\* a full queue that has refused an item, after a batch was taken and the
\* room was filled again
C35_Witness ==
  /\ Len(queue.items) = queue.max_items
  /\ queue.taken # <<>>
  /\ Len(queue.accepted) > queue.max_items
  /\ queue.calls > Len(queue.accepted)
  /\ ~queue.ended

\* nothing is lost, doubled or reordered: what was handed out and what is
\* queued are together the accepted items, in enqueue order
C36_InOrder ==
  /\ Len(queue.taken) <= Len(queue.accepted)
  /\ queue.taken = SubSeq(queue.accepted, 1, Len(queue.taken))
  /\ ~queue.ended => queue.taken \o queue.items = queue.accepted
  /\ queue.worker = "exec" => queue.batch # <<>>

\* a returned batch is the first min(queue length, batch_size) items, and a
\* call on an empty queue that is not ended waits until an item is there
C36_BatchStep ==
  LET n == IF Len(queue.items) <= queue.batch_size THEN Len(queue.items)
           ELSE queue.batch_size IN
  /\ queue'.taken # queue.taken =>
       /\ n > 0
       /\ queue'.batch = SubSeq(queue.items, 1, n)
       /\ queue'.taken = queue.taken \o queue'.batch
       /\ queue'.items = SubSeq(queue.items, n + 1, Len(queue.items))
  /\ (queue.worker \in {"running", "waiting"} /\ queue.items = <<>> /\ ~queue.ended)
       => queue'.worker \in {queue.worker, "waiting"}

\* C36: successive wait_for_batch calls return the accepted items in
\* enqueue order without loss or duplication; every returned batch is
\* non-empty and holds min(queue length, batch_size) items; a call on an
\* empty queue that is not ended blocks until an item is enqueued.
C36_BatchesInOrder == []C36_InOrder /\ [][C36_BatchStep]_vars

\* the worker has a batch of two items in hand, not its first batch, and
\* more items are queued
C36_Witness ==
  /\ queue.worker = "exec"
  /\ Len(queue.batch) = 2
  /\ Len(queue.taken) >= 3
  /\ queue.items # <<>>

\* on an ended queue nothing is queued and enqueue answers false
C37_EndedRefuses ==
  queue.ended =>
    /\ queue.items = <<>>
    /\ \A item \in Items : EnqueueOf(queue, item) = [q |-> queue, ret |-> FALSE]

\* an ended queue stays ended, hands out nothing more, and a wait_for_batch
\* on it returns None, with which the worker thread ends
C37_EndedStep ==
  queue.ended =>
    /\ queue'.ended
    /\ queue'.taken = queue.taken
    /\ (queue.worker \in {"running", "waiting"} /\ queue'.worker # queue.worker)
         => queue'.worker = "ended"

\* C37: after end() every current and future wait_for_batch returns None, a
\* waiter blocked on the empty queue is woken, every enqueue returns false
\* and the items still queued are abandoned; ExecutionQueue::end therefore
\* ends its worker thread.
C37_EndTerminates ==
  /\ []C37_EndedRefuses
  /\ [][C37_EndedStep]_vars
  /\ (queue.ended ~> queue.worker = "ended")
  /\ (queue.joiner = "joining" ~> queue.joiner = "joined")

\* ExecutionQueue::end has returned and accepted items were abandoned
C37_Witness ==
  /\ queue.joiner = "joined"
  /\ queue.worker = "ended"
  /\ Len(queue.accepted) > Len(queue.taken)
  /\ queue.calls > Len(queue.accepted)

\* transaction t waits in tx_buffer for the fan-out
InBuffer(t) == \E k \in 1..Len(peers.tx_buffer) : peers.tx_buffer[k] = t

\* C33: every inserted transaction handed to the PeerSet is eventually
\* delivered in a batch to the sessions, however many batches were fanned
\* out before: it does not stay in the buffer for ever.
C33_InsertedDelivered ==
  \A t \in 1..MaxInserted : InBuffer(t) ~> ~InBuffer(t)

\* a peer id has a session exactly when the map holds its handle, and never
\* more than one
C40_OneSession ==
  \A id \in PeerIds :
     peers.sessions[id] = (IF peers.handles[id].present THEN 1 ELSE 0)

\* C40: Peers::inbound for a peer id without a session creates exactly one
\* session for it, also when two calls for the same new peer race, and the
\* call always completes: it does not wait for the peers lock for ever.
C40_InboundCompletes ==
  /\ []C40_OneSession
  /\ \A c \in Callers : (peers.calls[c].pc = "read") ~> (peers.calls[c].pc = "done")
====
